---- MODULE Spec2Model ----
(***************************************************************************)
(* Request-execution core of the smithy-rs client runtime: the interceptor *)
(* registry and hook dispatcher (aws-smithy-runtime-api, interceptors.rs)  *)
(* and the auth orchestrator (aws-smithy-runtime, orchestrator/auth.rs);   *)
(* and the DateTime value type (aws-smithy-types, date_time/mod.rs).       *)
(***************************************************************************)
EXTENDS Integers, Sequences, FiniteSets, TLC

VARIABLES
    client_interceptors,     \* Interceptors.client_interceptors: InterceptorRegistrar(Vec)
    operation_interceptors,  \* Interceptors.operation_interceptors
    ctx,                     \* the InterceptorContext handed to the hooks
    last,                    \* what the latest dispatch call did and returned
    cfg,                     \* the ConfigBag entries orchestrate_auth reads
    auth,                    \* what the latest orchestrate_auth call did and returned
    pc,                      \* the step of the execution pipeline to take next
    attempt,                 \* number of the current attempt (0 before the retry loop)
    saved_request,           \* the request captured on entry to the retry loop
    prev_request,            \* the request as the previous attempt left it
    log,                     \* the steps taken since the execution began or was last retried
    sent,                    \* transport sends made in the current attempt
    events,                  \* hook deviations and collaborator failures so far
    date_time                \* the latest DateTime call: what it was given and returned

vars == <<client_interceptors, operation_interceptors, ctx, last, cfg, auth,
          pc, attempt, saved_request, prev_request, log, sent, events, date_time>>

\* the variables the dispatcher and orchestrate_auth do not use
pipe == <<pc, attempt, saved_request, prev_request, log, sent, events, date_time>>

(***************************************************************************)
(* Bounds of the model.                                                    *)
(***************************************************************************)
\* interceptor implementations that exist (SharedInterceptor handles)
NumInterceptors == 2
\* registrations a registrar holds at most
MaxRegistered == 2
\* auth scheme ids that exist
NumSchemes == 2
\* auth options the resolver returns at most
MaxAuthOptions == 2
\* attempts the retry policy allows at most
MaxAttempts == 2
\* hook deviations (an error, a mutation) and collaborator failures explored
\* in one execution
MaxEvents == 2

InterceptorIds == 1..NumInterceptors

(***************************************************************************)
(* The hooks of trait Interceptor, in declaration (= phase) order.         *)
(***************************************************************************)
HookOrder ==
    << "read_before_execution",
       "modify_before_serialization",
       "read_before_serialization",
       "read_after_serialization",
       "modify_before_retry_loop",
       "read_before_attempt",
       "modify_before_signing",
       "read_before_signing",
       "read_after_signing",
       "modify_before_transmit",
       "read_before_transmit",
       "read_after_transmit",
       "modify_before_deserialization",
       "read_before_deserialization",
       "read_after_deserialization",
       "modify_before_attempt_completion",
       "read_after_attempt",
       "modify_before_completion",
       "read_after_execution" >>

Hooks == {HookOrder[i] : i \in 1..Len(HookOrder)}

\* the $phase argument of each interceptor_trait_fn! / interceptor_impl_fn! use
PhaseOf(h) ==
    CASE h \in {"read_before_execution", "modify_before_serialization",
                "read_before_serialization"} -> "BeforeSerialization"
      [] h \in {"read_after_serialization", "modify_before_retry_loop",
                "read_before_attempt", "modify_before_signing",
                "read_before_signing", "read_after_signing",
                "modify_before_transmit", "read_before_transmit"} -> "BeforeTransmit"
      [] h \in {"read_after_transmit", "modify_before_deserialization",
                "read_before_deserialization"} -> "BeforeDeserialization"
      [] OTHER -> "AfterDeserialization"

\* the hooks declared with `mut`: they get &mut InterceptorContext
ModifyHooks ==
    {"modify_before_serialization", "modify_before_retry_loop",
     "modify_before_signing", "modify_before_transmit",
     "modify_before_deserialization", "modify_before_attempt_completion",
     "modify_before_completion"}

\* the message a modify hook may replace (its "Return Constraints" paragraph)
TargetOf(h) ==
    CASE h = "modify_before_serialization" -> "input"
      [] h \in {"modify_before_retry_loop", "modify_before_signing",
                "modify_before_transmit"} -> "request"
      [] h = "modify_before_deserialization" -> "response"
      [] OTHER -> "output_or_error"

\* the fields the "Available Information" paragraph of each hook calls
\* ALWAYS available
AlwaysAvailable(h) ==
    CASE h \in {"read_before_execution", "modify_before_serialization",
                "read_before_serialization"} -> {"input"}
      [] h \in {"read_after_serialization", "modify_before_retry_loop",
                "read_before_attempt", "modify_before_signing",
                "read_before_signing", "read_after_signing",
                "modify_before_transmit", "read_before_transmit"} ->
            {"input", "request"}
      [] h \in {"read_after_transmit", "modify_before_deserialization",
                "read_before_deserialization"} -> {"input", "request", "response"}
      [] h \in {"read_after_deserialization", "modify_before_attempt_completion"} ->
            {"input", "request", "response", "output_or_error"}
      [] h = "read_after_attempt" -> {"input", "request", "output_or_error"}
      [] OTHER -> {"input", "output_or_error"}

\* the two hook points whose documentation says errors are stored until all
\* interceptors have been invoked ("collect-then-jump")
CollectHooks == {"read_before_execution", "read_before_attempt"}

\* the dispatch functions of impl Interceptors ($outer_name), in source order
DispatchFns ==
    {"client_read_before_execution", "operation_read_before_execution"}
        \cup (Hooks \ {"read_before_execution"})

\* $inner_name of a dispatch function
InnerName(outer) ==
    IF outer \in {"client_read_before_execution", "operation_read_before_execution"}
    THEN "read_before_execution"
    ELSE outer

(***************************************************************************)
(* Values.                                                                 *)
(***************************************************************************)
NoErr == [kind |-> "none", hook |-> "", by |-> 0]

\* the BoxError returned by the hook of the interceptor at position `pos`
HookErr(h, pos) == [kind |-> "hook", hook |-> h, by |-> pos]

\* InterceptorError::$inner_name(source)
InterceptorError(h, source) == [kind |-> "InterceptorError", hook |-> h, by |-> source.by]

OkResult == [ok |-> TRUE, err |-> NoErr]
ErrResult(e) == [ok |-> FALSE, err |-> e]

\* a message: its logical type and the marks hooks (or the signer) left on it
Msg(t) == [type |-> t, marks |-> {}, cause |-> NoErr]
None == Msg("None")

\* a context in phase `ph`, as the pipeline hands it to the hooks of that phase
ContextIn(ph) ==
    [ phase |-> ph,
      input |-> Msg("Input"),
      request |-> IF ph = "BeforeSerialization" THEN None ELSE Msg("Request"),
      response |-> IF ph \in {"BeforeDeserialization", "AfterDeserialization"}
                   THEN Msg("Response") ELSE None,
      output_or_error |-> IF ph = "AfterDeserialization" THEN Msg("Output") ELSE None ]

(***************************************************************************)
(* What one hook implementation does when invoked.  "ok" is the default    *)
(* body of interceptor_trait_fn!; the others are what an overriding        *)
(* implementation may do.                                                  *)
(***************************************************************************)
ReadBehaviours == {"ok", "err"}
ModifyBehaviours == {"ok", "err", "mut", "mistype"}
BehavioursOf(h) == IF h \in ModifyHooks THEN ModifyBehaviours ELSE ReadBehaviours

InvokeHook(h, pos, b, context) ==
    LET f == TargetOf(h)
        old == context[f]
    IN CASE b = "err" -> [ret |-> ErrResult(HookErr(h, pos)), context |-> context]
         [] b = "mut" ->
              [ret |-> OkResult,
               context |-> [context EXCEPT ![f] =
                               [old EXCEPT !.marks = @ \cup {<<h, pos>>}]]]
         [] b = "mistype" ->
              [ret |-> OkResult,
               context |-> [context EXCEPT ![f] = [old EXCEPT !.type = "Other"]]]
         [] OTHER -> [ret |-> OkResult, context |-> context]

(***************************************************************************)
(* InterceptorRegistrar                                                    *)
(***************************************************************************)
\* a plausible slip: the registrar kept as a set, so that an interceptor that
\* is already registered is not added again
register_dedup(registrar, interceptor) ==
    IF \E k \in 1..Len(registrar) : registrar[k] = interceptor
    THEN registrar
    ELSE Append(registrar, interceptor)

\* InterceptorRegistrar::register: self.0.push(interceptor)
register(registrar, interceptor) == Append(registrar, interceptor)

\* Extend::extend: for interceptor in iter { self.register(interceptor) }
RECURSIVE extend(_, _)
extend(registrar, iter) ==
    IF iter = <<>> THEN registrar
    ELSE extend(register(registrar, Head(iter)), Tail(iter))

Tag(scope, registrar) ==
    [i \in 1..Len(registrar) |-> [scope |-> scope, idx |-> i, id |-> registrar[i]]]

\* a plausible slip: the operation-scoped list chained first
interceptors_op_first(client, operation) ==
    Tag("operation", operation) \o Tag("client", client)

\* Interceptors::interceptors: client_interceptors.0.iter().chain(operation_interceptors.0.iter())
interceptors(client, operation) ==
    Tag("client", client) \o Tag("operation", operation)

\* the registrations a hook may make through the configuration it is handed:
\* one more interceptor, client- or operation-scoped
HookRegistrations ==
    {<<[scope |-> sc, id |-> i]>> : sc \in {"client", "operation"}, i \in InterceptorIds}

\* the registrar once the registrations hooks made for its scope have reached it
apply_registrations(registrar, sc, regs) ==
    extend(registrar,
           [k \in 1..Len(SelectSeq(regs, LAMBDA r : r.scope = sc)) |->
               SelectSeq(regs, LAMBDA r : r.scope = sc)[k].id])

\* a plausible slip: the loop walks the live registrars, so that what a hook
\* registers during the pass is iterated in the same pass
pass_interceptors_live(client, operation, regs) ==
    interceptors(apply_registrations(client, "client", regs),
                 apply_registrations(operation, "operation", regs))

\* `for interceptor in self.interceptors()`: the iterator is built once, from
\* the registrars as they are before the first hook runs; regs, which hooks
\* register while the loop runs, is not part of it
pass_interceptors(client, operation, regs) == interceptors(client, operation)

(***************************************************************************)
(* interceptor_impl_fn!: the body every dispatch function expands to.      *)
(* acc = [result, context, invoked, seen]                                  *)
(***************************************************************************)
\* a plausible slip: the first error is kept and later ones are dropped
impl_step_keep_first(h, list, beh, i, acc) ==
    LET r == InvokeHook(h, i, beh[i], acc.context)
    IN [ result |-> IF acc.result.ok /\ ~r.ret.ok THEN ErrResult(r.ret.err)
                    ELSE acc.result,
         context |-> r.context,
         invoked |-> Append(acc.invoked, list[i]),
         seen |-> Append(acc.seen, acc.context) ]

\* a plausible slip: `result = interceptor.hook(..)`, so that a hook returning
\* Ok clears the error an earlier hook raised
impl_step_overwrite(h, list, beh, i, acc) ==
    LET r == InvokeHook(h, i, beh[i], acc.context)
    IN [ result |-> r.ret,
         context |-> r.context,
         invoked |-> Append(acc.invoked, list[i]),
         seen |-> Append(acc.seen, acc.context) ]

\* a plausible slip: every hook is handed the message as it was when the
\* dispatch started (a copy taken before the loop), so that what an earlier
\* hook of the group left is lost
impl_step_from_snapshot(h, list, beh, i, acc) ==
    LET r == InvokeHook(h, i, beh[i],
                        IF acc.seen = <<>> THEN acc.context ELSE acc.seen[1])
    IN [ result |-> IF r.ret.ok THEN acc.result ELSE ErrResult(r.ret.err),
         context |-> r.context,
         invoked |-> Append(acc.invoked, list[i]),
         seen |-> Append(acc.seen, IF acc.seen = <<>> THEN acc.context ELSE acc.seen[1]) ]

\* one iteration of `for interceptor in self.interceptors()`
impl_step(h, list, beh, i, acc) ==
    LET r == InvokeHook(h, i, beh[i], acc.context)
    IN [ result |-> IF r.ret.ok THEN acc.result ELSE ErrResult(r.ret.err),
         context |-> r.context,
         invoked |-> Append(acc.invoked, list[i]),
         seen |-> Append(acc.seen, acc.context) ]

\* a plausible slip: `interceptor.hook(context, cfg)?`, which leaves the loop
\* at the first error
RECURSIVE impl_loop_fail_fast(_, _, _, _, _)
impl_loop_fail_fast(h, list, beh, i, acc) ==
    IF i > Len(list) \/ ~acc.result.ok THEN acc
    ELSE impl_loop_fail_fast(h, list, beh, i + 1, impl_step(h, list, beh, i, acc))

RECURSIVE impl_loop(_, _, _, _, _)
impl_loop(h, list, beh, i, acc) ==
    IF i > Len(list) THEN acc
    ELSE impl_loop(h, list, beh, i + 1, impl_step(h, list, beh, i, acc))

\* a plausible slip: the macro's last line names one variant,
\* result.map_err(InterceptorError::read_before_execution), for every hook
interceptor_impl_fn_one_tag(h, list, beh, context) ==
    LET acc == impl_loop(h, list, beh, 1,
                   [result |-> OkResult, context |-> context,
                    invoked |-> <<>>, seen |-> <<>>])
    IN [ result |-> IF acc.result.ok THEN OkResult
                    ELSE ErrResult(InterceptorError("read_before_execution",
                                                    acc.result.err)),
         context |-> acc.context,
         invoked |-> acc.invoked,
         seen |-> acc.seen ]

\* lines 640-657: the loop, then result.map_err(InterceptorError::$inner_name)
interceptor_impl_fn(h, list, beh, context) ==
    LET acc == impl_loop(h, list, beh, 1,
                   [result |-> OkResult, context |-> context,
                    invoked |-> <<>>, seen |-> <<>>])
    IN [ result |-> IF acc.result.ok THEN OkResult
                    ELSE ErrResult(InterceptorError(h, acc.result.err)),
         context |-> acc.context,
         invoked |-> acc.invoked,
         seen |-> acc.seen ]

\* the record kept of a dispatch call
\* registered: what hooks registered during the call; added: the registrations
\* of the call before that reached the registrars ahead of this call;
\* earlier: the interceptors the call before invoked
NoDispatch == [fn |-> "", hook |-> "", beh |-> <<>>, list |-> <<>>,
               invoked |-> <<>>, seen |-> <<>>, result |-> OkResult,
               registered |-> <<>>, added |-> <<>>, earlier |-> <<>>]

Dispatched(fn, beh, list, out) ==
    [fn |-> fn, hook |-> InnerName(fn), beh |-> beh, list |-> list,
     invoked |-> out.invoked, seen |-> out.seen, result |-> out.result,
     registered |-> <<>>, added |-> <<>>, earlier |-> <<>>]

\* what each interceptor implementation does at hook h, and from it what the
\* interceptor at each position of the list does
ImplBehaviours(h) == [InterceptorIds -> BehavioursOf(h)]
BehaviourAt(list, impl) == [i \in 1..Len(list) |-> impl[list[i].id]]

(***************************************************************************)
(* DateTime (aws-smithy-types, date_time/mod.rs): seconds since the Unix   *)
(* epoch as i64 and sub-second nanos as u32.  The integer types keep a     *)
(* width, and the units a ratio, small enough for every value to be        *)
(* enumerated: the source has i64, u32, 1000 millis per second and         *)
(* 1_000_000 nanos per milli.  i128 values are plain integers: no          *)
(* operation of the source on i128 can leave its range                     *)
(* (|i64| * NANOS_PER_SECOND + u32 < 2^127).                               *)
(***************************************************************************)
\* bits of the type of `seconds` and of epoch millis (i64 in the source)
I64Bits == 6
\* bits of the type of `subsecond_nanos` (u32 in the source)
U32Bits == 3
\* const MILLIS_PER_SECOND (1000 in the source)
MILLIS_PER_SECOND == 3
\* const NANOS_PER_MILLI (1_000_000 in the source)
NANOS_PER_MILLI == 2

\* const NANOS_PER_SECOND: i128, NANOS_PER_SECOND_U32
NANOS_PER_SECOND == MILLIS_PER_SECOND * NANOS_PER_MILLI

I64_MIN == -(2 ^ (I64Bits - 1))
I64_MAX == 2 ^ (I64Bits - 1) - 1
I64 == I64_MIN..I64_MAX
U32 == 0..(2 ^ U32Bits - 1)

\* Option<i64> / Result<i64, ConversionError>
Some(v) == [ok |-> TRUE, value |-> v]
Nothing == [ok |-> FALSE, value |-> 0]

\* i64::checked_add, checked_sub, checked_mul: None on overflow
checked(v) == IF v \in I64 THEN Some(v) ELSE Nothing
checked_add(a, b) == checked(a + b)
checked_sub(a, b) == checked(a - b)
checked_mul(a, b) == checked(a * b)

\* Option::and_then, the closure given as a function on i64
and_then(o, f) == IF o.ok THEN f[o.value] ELSE Nothing

\* i64::wrapping arithmetic: the value modulo 2^64, read as signed
wrapping(v) == ((v - I64_MIN) % (2 ^ I64Bits)) + I64_MIN

\* `x as u32` of an i64 or i128: the value modulo 2^32
as_u32(x) == x % (2 ^ U32Bits)

\* num_integer::div_mod_floor, Integer::div_floor: quotient rounded towards
\* negative infinity, remainder with the sign of the divisor
div_floor(a, b) == a \div b
mod_floor(a, b) == a % b

\* the struct: DateTime { seconds, subsecond_nanos }
DateTime(seconds, subsecond_nanos) ==
    [seconds |-> seconds, subsecond_nanos |-> subsecond_nanos]

\* no DateTime was made: the call panicked or returned an error
NoDateTime == DateTime(0, -1)

\* DateTime::from_secs_and_nanos: panics when subsecond_nanos >= 1_000_000_000
from_secs_and_nanos(seconds, subsecond_nanos) ==
    IF subsecond_nanos >= NANOS_PER_SECOND
    THEN NoDateTime
    ELSE DateTime(seconds, subsecond_nanos)

\* DateTime::from_millis.  millis is in 0..MILLIS_PER_SECOND-1, so that the
\* u32 product cannot overflow
from_millis(epoch_millis) ==
    LET seconds == div_floor(epoch_millis, MILLIS_PER_SECOND)
        millis == mod_floor(epoch_millis, MILLIS_PER_SECOND)
    IN from_secs_and_nanos(seconds, as_u32(millis) * NANOS_PER_MILLI)

\* Result<DateTime, ConversionError>
OkDateTime(d) == [ok |-> TRUE, value |-> d]
ConversionError == [ok |-> FALSE, value |-> NoDateTime]

\* DateTime::from_nanos
from_nanos(epoch_nanos) ==
    LET seconds == div_floor(epoch_nanos, NANOS_PER_SECOND)
        subsecond_nanos == mod_floor(epoch_nanos, NANOS_PER_SECOND)
    IN IF seconds \notin I64
       THEN ConversionError
       ELSE OkDateTime(DateTime(seconds, as_u32(subsecond_nanos)))

\* a plausible slip: the sub-second nanos of a time before the epoch counted
\* away from the epoch (sign and magnitude)
as_nanos_sign_magnitude(d) ==
    LET seconds == d.seconds * NANOS_PER_SECOND
    IN IF seconds < 0
       THEN seconds - d.subsecond_nanos
       ELSE seconds + d.subsecond_nanos

\* DateTime::as_nanos
as_nanos(d) ==
    LET seconds == d.seconds * NANOS_PER_SECOND
    IN IF seconds < 0
       THEN LET adjusted_nanos == d.subsecond_nanos - NANOS_PER_SECOND
            IN seconds + NANOS_PER_SECOND + adjusted_nanos
       ELSE seconds + d.subsecond_nanos

\* a plausible slip: one branch for every sign, the product checked first
to_millis_one_branch(d) ==
    LET subsec_millis == div_floor(d.subsecond_nanos, NANOS_PER_MILLI)
    IN and_then(checked_mul(d.seconds, MILLIS_PER_SECOND),
                [millis \in I64 |-> checked_add(millis, subsec_millis)])

\* a plausible slip: unchecked arithmetic, which wraps
to_millis_wrapping(d) ==
    LET subsec_millis == div_floor(d.subsecond_nanos, NANOS_PER_MILLI)
    IN Some(wrapping(d.seconds * MILLIS_PER_SECOND + subsec_millis))

\* DateTime::to_millis: Err(ConversionError) when a checked step overflows
to_millis(d) ==
    LET subsec_millis == div_floor(d.subsecond_nanos, NANOS_PER_MILLI)
    IN IF d.seconds < 0
       THEN and_then(and_then(checked_add(d.seconds, 1),
                              [seconds \in I64 |->
                                  checked_mul(seconds, MILLIS_PER_SECOND)]),
                     [millis \in I64 |->
                         checked_sub(millis, MILLIS_PER_SECOND - subsec_millis)])
       ELSE and_then(checked_mul(d.seconds, MILLIS_PER_SECOND),
                     [millis \in I64 |-> checked_add(millis, subsec_millis)])

\* i128::cmp
int_cmp(a, b) == IF a < b THEN "Less" ELSE IF a > b THEN "Greater" ELSE "Equal"

\* a plausible slip: the order derived from the fields, with the nanos of a
\* time before the epoch counted away from it
cmp_sign_magnitude(a, b) == int_cmp(as_nanos_sign_magnitude(a), as_nanos_sign_magnitude(b))

\* Ord for DateTime: self.as_nanos().cmp(&other.as_nanos())
cmp(a, b) == int_cmp(as_nanos(a), as_nanos(b))

\* #[derive(PartialEq, Eq)]: field by field
eq(a, b) == a.seconds = b.seconds /\ a.subsecond_nanos = b.subsecond_nanos

\* no DateTime function was called
NoDateTimeCall ==
    [ op |-> "", made |-> "", arg |-> 0, d |-> NoDateTime, other |-> NoDateTime,
      millis |-> Nothing, nanos |-> 0, back |-> ConversionError, ord |-> "", eq |-> FALSE ]

\* no execution is running: the dispatcher or orchestrate_auth is called directly
NoPipeline ==
    /\ pc = "api"
    /\ attempt = 0
    /\ saved_request = None
    /\ prev_request = None
    /\ log = <<>>
    /\ sent = 0
    /\ events = 0

(***************************************************************************)
(* Auth orchestrator (orchestrator/auth.rs).                               *)
(* cfg holds what the ConfigBag accessors return: the auth options the     *)
(* resolver yields (or its failure), the registered schemes and identity   *)
(* resolvers in registration order, and what each identity resolver and    *)
(* each signer answers when called.                                        *)
(***************************************************************************)
SchemeIds == 1..NumSchemes

Range(s) == {s[i] : i \in 1..Len(s)}

\* sequences over S without repetition: a registry in registration order
Orderings(S) ==
    {s \in UNION {[1..n -> S] : n \in 0..Cardinality(S)} :
        \A i, j \in 1..Len(s) : i # j => s[i] # s[j]}

DefaultCfg ==
    [ resolver_ok |-> TRUE,
      auth_options |-> [i \in 1..NumSchemes |-> i],
      http_auth_schemes |-> [i \in 1..NumSchemes |-> i],
      identity_resolvers |-> [i \in 1..NumSchemes |-> i],
      identity_ok |-> [s \in SchemeIds |-> TRUE],
      sign_ok |-> [s \in SchemeIds |-> TRUE] ]

\* cfg.http_auth_schemes().scheme(scheme_id)
scheme(c, scheme_id) == scheme_id \in Range(c.http_auth_schemes)

\* auth_scheme.identity_resolver(identity_resolvers):
\* identity_resolvers.identity_resolver(self.scheme_id())
identity_resolver(c, scheme_id) == scheme_id \in Range(c.identity_resolvers)

\* SdkError::construction_failure(err)
construction_failure(what) == [kind |-> "construction_failure", hook |-> what, by |-> 0]

SignerErr(scheme_id) == [kind |-> "signer", hook |-> "sign_request", by |-> scheme_id]

NoAuthSchemeMatched == [kind |-> "no_auth_scheme_matched", hook |-> "", by |-> 0]

\* request_signer.sign_request(request, &identity, cfg) of scheme `scheme_id`
sign_request(request, scheme_id) ==
    [request EXCEPT !.marks = @ \cup {<<"signed", scheme_id>>}]

AuthOut(ok, err, checkpoint, looked, resolved, signers) ==
    [ ok |-> ok, err |-> err, checkpoint |-> checkpoint,
      looked |-> looked, resolved |-> resolved, signers |-> signers ]

\* a plausible slip: resolve_identity(cfg).await.unwrap_or_default(), so that
\* the signer is handed an empty identity when the resolver failed
auth_selected_default_identity(checkpoint, c, scheme_id, looked) ==
    IF ~c.sign_ok[scheme_id]
    THEN AuthOut(FALSE, SignerErr(scheme_id), checkpoint,
                 looked, <<scheme_id>>, <<scheme_id>>)
    ELSE AuthOut(TRUE, NoErr,
                 [checkpoint EXCEPT !.request = sign_request(@, scheme_id)],
                 looked, <<scheme_id>>, <<scheme_id>>)

\* a plausible slip: the signer's error goes through
\* map_err(construction_failure) like the identity resolver's
auth_selected_sign_mapped(checkpoint, c, scheme_id, looked) ==
    IF ~c.identity_ok[scheme_id]
    THEN AuthOut(FALSE, construction_failure("resolve_identity"), checkpoint,
                 looked, <<scheme_id>>, <<>>)
    ELSE IF ~c.sign_ok[scheme_id]
    THEN AuthOut(FALSE, construction_failure("sign_request"), checkpoint,
                 looked, <<scheme_id>>, <<scheme_id>>)
    ELSE AuthOut(TRUE, NoErr,
                 [checkpoint EXCEPT !.request = sign_request(@, scheme_id)],
                 looked, <<scheme_id>>, <<scheme_id>>)

\* a plausible slip: the resolved identity is kept with the request in the
\* context, for later attempts to sign with
auth_selected_keeps_identity(checkpoint, c, scheme_id, looked) ==
    IF ~c.identity_ok[scheme_id]
    THEN AuthOut(FALSE, construction_failure("resolve_identity"), checkpoint,
                 looked, <<scheme_id>>, <<>>)
    ELSE IF ~c.sign_ok[scheme_id]
    THEN AuthOut(FALSE, SignerErr(scheme_id),
                 [checkpoint EXCEPT !.request.marks = @ \cup {<<"identity", scheme_id>>}],
                 looked, <<scheme_id>>, <<scheme_id>>)
    ELSE AuthOut(TRUE, NoErr,
                 [checkpoint EXCEPT !.request =
                     [sign_request(@, scheme_id)
                         EXCEPT !.marks = @ \cup {<<"identity", scheme_id>>}]],
                 looked, <<scheme_id>>, <<scheme_id>>)

\* a plausible slip: the signed request is handed back in a checkpoint that
\* was already moved on to the Transmit phase (checkpoint.into_transmit())
auth_selected_into_transmit(checkpoint, c, scheme_id, looked) ==
    IF ~c.identity_ok[scheme_id]
    THEN AuthOut(FALSE, construction_failure("resolve_identity"), checkpoint,
                 looked, <<scheme_id>>, <<>>)
    ELSE IF ~c.sign_ok[scheme_id]
    THEN AuthOut(FALSE, SignerErr(scheme_id), checkpoint,
                 looked, <<scheme_id>>, <<scheme_id>>)
    ELSE AuthOut(TRUE, NoErr,
                 [checkpoint EXCEPT !.request = sign_request(@, scheme_id),
                                    !.phase = "Transmit"],
                 looked, <<scheme_id>>, <<scheme_id>>)

\* lines 36-44: the candidate has a scheme and an identity resolver
auth_selected(checkpoint, c, scheme_id, looked) ==
    IF ~c.identity_ok[scheme_id]
    THEN AuthOut(FALSE, construction_failure("resolve_identity"), checkpoint,
                 looked, <<scheme_id>>, <<>>)
    ELSE IF ~c.sign_ok[scheme_id]
    THEN AuthOut(FALSE, SignerErr(scheme_id), checkpoint,
                 looked, <<scheme_id>>, <<scheme_id>>)
    ELSE AuthOut(TRUE, NoErr,
                 [checkpoint EXCEPT !.request = sign_request(@, scheme_id)],
                 looked, <<scheme_id>>, <<scheme_id>>)

\* a plausible slip: a candidate without scheme or identity resolver ends the
\* search instead of being skipped
auth_loop_no_skip(checkpoint, c, candidates, i, looked) ==
    IF i > Len(candidates)
    THEN AuthOut(FALSE, NoAuthSchemeMatched, checkpoint, looked, <<>>, <<>>)
    ELSE LET scheme_id == candidates[i]
             seen == Append(looked, scheme_id)
         IN IF scheme(c, scheme_id) /\ identity_resolver(c, scheme_id)
            THEN auth_selected(checkpoint, c, scheme_id, seen)
            ELSE AuthOut(FALSE, NoAuthSchemeMatched, checkpoint, seen, <<>>, <<>>)

\* a plausible slip: when no candidate matched, the first auth option is
\* applied anyway instead of bailing out
RECURSIVE auth_loop_fallback(_, _, _, _, _)
auth_loop_fallback(checkpoint, c, candidates, i, looked) ==
    IF i > Len(candidates)
    THEN IF candidates = <<>>
         THEN AuthOut(FALSE, NoAuthSchemeMatched, checkpoint, looked, <<>>, <<>>)
         ELSE auth_selected(checkpoint, c, candidates[1], looked)
    ELSE LET scheme_id == candidates[i]
             seen == Append(looked, scheme_id)
         IN IF scheme(c, scheme_id) /\ identity_resolver(c, scheme_id)
            THEN auth_selected(checkpoint, c, scheme_id, seen)
            ELSE auth_loop_fallback(checkpoint, c, candidates, i + 1, seen)

\* a plausible slip: the `return Ok(checkpoint)` after signing is missing, so
\* the loop goes on and every later usable candidate signs the request as well
RECURSIVE auth_loop_no_return(_, _, _, _, _)
auth_loop_no_return(checkpoint, c, candidates, i, looked) ==
    IF i > Len(candidates)
    THEN AuthOut(FALSE, NoAuthSchemeMatched, checkpoint, looked, <<>>, <<>>)
    ELSE LET scheme_id == candidates[i]
             seen == Append(looked, scheme_id)
         IN IF scheme(c, scheme_id) /\ identity_resolver(c, scheme_id)
            THEN LET first == auth_selected(checkpoint, c, scheme_id, seen)
                     later == auth_loop_no_return(first.checkpoint, c, candidates,
                                                  i + 1, seen)
                 IN IF ~first.ok
                    THEN first
                    ELSE IF later.err = NoAuthSchemeMatched
                    THEN [first EXCEPT !.looked = later.looked]
                    ELSE [later EXCEPT !.resolved = first.resolved \o @,
                                       !.signers = first.signers \o @]
            ELSE auth_loop_no_return(checkpoint, c, candidates, i + 1, seen)

\* a plausible slip: a candidate whose identity resolver or signer fails is
\* passed over, and its error is returned only when no later candidate succeeds
RECURSIVE auth_loop_tries_next(_, _, _, _, _)
auth_loop_tries_next(checkpoint, c, candidates, i, looked) ==
    IF i > Len(candidates)
    THEN AuthOut(FALSE, NoAuthSchemeMatched, checkpoint, looked, <<>>, <<>>)
    ELSE LET scheme_id == candidates[i]
             seen == Append(looked, scheme_id)
         IN IF scheme(c, scheme_id) /\ identity_resolver(c, scheme_id)
            THEN LET first == auth_selected(checkpoint, c, scheme_id, seen)
                     later == auth_loop_tries_next(checkpoint, c, candidates,
                                                   i + 1, seen)
                 IN IF first.ok \/ ~later.ok THEN first ELSE later
            ELSE auth_loop_tries_next(checkpoint, c, candidates, i + 1, seen)

\* lines 33-52: for &scheme_id in auth_options.as_ref() { .. } bail!(..)
RECURSIVE auth_loop(_, _, _, _, _)
auth_loop(checkpoint, c, candidates, i, looked) ==
    IF i > Len(candidates)
    THEN AuthOut(FALSE, NoAuthSchemeMatched, checkpoint, looked, <<>>, <<>>)
    ELSE LET scheme_id == candidates[i]
             seen == Append(looked, scheme_id)
         IN IF scheme(c, scheme_id) /\ identity_resolver(c, scheme_id)
            THEN auth_selected(checkpoint, c, scheme_id, seen)
            ELSE auth_loop(checkpoint, c, candidates, i + 1, seen)

\* a plausible slip: the registered schemes are walked in registration order
\* and the first one that is also an auth option wins
orchestrate_auth_by_registration(checkpoint, c) ==
    IF ~c.resolver_ok
    THEN AuthOut(FALSE, construction_failure("resolve_auth_options"), checkpoint,
                 <<>>, <<>>, <<>>)
    ELSE auth_loop(checkpoint, c,
                   SelectSeq(c.http_auth_schemes,
                             LAMBDA x : x \in Range(c.auth_options)),
                   1, <<>>)

\* a plausible slip: resolve_auth_options(params).unwrap_or_default(), so that
\* a failing resolver counts as one that offers its usual options
orchestrate_auth_resolver_default(checkpoint, c) ==
    auth_loop(checkpoint, c, c.auth_options, 1, <<>>)

\* lines 12-53
orchestrate_auth(checkpoint, c) ==
    IF ~c.resolver_ok
    THEN AuthOut(FALSE, construction_failure("resolve_auth_options"), checkpoint,
                 <<>>, <<>>, <<>>)
    ELSE auth_loop(checkpoint, c, c.auth_options, 1, <<>>)

\* whether the caller still has the checkpoint (and the context it owns) after
\* the call.  Ok(checkpoint) hands it back; handle_err!([checkpoint] => ..) and
\* bail!([checkpoint], ..) are given it to build the error from;
\* map_err(construction_failure)? builds the SdkError from the error alone and
\* the checkpoint, which was moved into the call, is dropped on return
CheckpointSurvives(out) ==
    out.ok \/ out.err.kind \in {"signer", "no_auth_scheme_matched"}

NoAuth == [called |-> FALSE, out |-> AuthOut(TRUE, NoErr, ContextIn("BeforeTransmit"),
                                            <<>>, <<>>, <<>>)]

(***************************************************************************)
(* Auth specification: orchestrate_auth called once on a BeforeTransmit    *)
(* checkpoint under every configuration within the bounds.                 *)
(***************************************************************************)
AuthOptionLists == UNION {[1..n -> SchemeIds] : n \in 0..MaxAuthOptions}

\* what the collaborators answer during one call: the auth option resolver
\* (Ok or Err), and each scheme's identity resolver and signer
Answers ==
    [ resolver_ok : BOOLEAN,
      identity_ok : [SchemeIds -> BOOLEAN],
      sign_ok : [SchemeIds -> BOOLEAN] ]

WithAnswers(c, a) ==
    [c EXCEPT !.resolver_ok = a.resolver_ok,
              !.identity_ok = a.identity_ok,
              !.sign_ok = a.sign_ok]

\* the registrations and auth options a ConfigBag may hold
Cfgs ==
    { [DefaultCfg EXCEPT !.auth_options = o,
                         !.http_auth_schemes = hs,
                         !.identity_resolvers = ir] :
        o \in AuthOptionLists, hs \in Orderings(SchemeIds), ir \in Orderings(SchemeIds) }

InitAuth ==
    /\ client_interceptors = <<>>
    /\ operation_interceptors = <<>>
    /\ ctx = ContextIn("BeforeTransmit")
    /\ last = NoDispatch
    /\ cfg \in Cfgs
    /\ auth = NoAuth
    /\ NoPipeline
    /\ date_time = NoDateTimeCall

\* a plausible slip: the identity resolver that was used is taken out of the
\* registry (identity_resolvers held by value and consumed by the call)
OrchestrateAuthCall_takes_resolver ==
    /\ ~auth.called
    /\ \E a \in Answers :
         LET c == WithAnswers(cfg, a)
             out == orchestrate_auth(ctx, c)
         IN /\ auth' = [called |-> TRUE, out |-> out]
            /\ ctx' = out.checkpoint
            /\ cfg' = [c EXCEPT !.identity_resolvers =
                          SelectSeq(@, LAMBDA id : id \notin Range(out.resolved))]
    /\ UNCHANGED <<client_interceptors, operation_interceptors, last, pipe>>

\* orchestrate_auth(checkpoint, &cfg): the configuration is lent to the call,
\* which reads it; what the resolvers and signers answer during the call is
\* recorded with it
OrchestrateAuthCall ==
    /\ ~auth.called
    /\ \E a \in Answers :
         LET c == WithAnswers(cfg, a)
             out == orchestrate_auth(ctx, c)
         IN /\ auth' = [called |-> TRUE, out |-> out]
            /\ ctx' = out.checkpoint
            /\ cfg' = c
    /\ UNCHANGED <<client_interceptors, operation_interceptors, last, pipe>>

NextAuth == OrchestrateAuthCall

SpecAuth == InitAuth /\ [][NextAuth]_vars

(***************************************************************************)
(* Dispatcher specification: a caller registers interceptors and calls the *)
(* dispatch functions on a context of the hook's phase.                    *)
(***************************************************************************)
Registrars == UNION {[1..n -> InterceptorIds] : n \in 0..MaxRegistered}

InitDispatch ==
    /\ client_interceptors \in Registrars
    /\ operation_interceptors \in Registrars
    /\ ctx = ContextIn("BeforeSerialization")
    /\ last = NoDispatch
    /\ cfg = DefaultCfg
    /\ auth = NoAuth
    /\ NoPipeline
    /\ date_time = NoDateTimeCall

\* interceptors.client_interceptors_mut().register(..)
RegisterClient ==
    /\ last = NoDispatch
    /\ Len(client_interceptors) < MaxRegistered
    /\ \E i \in InterceptorIds :
          client_interceptors' = register(client_interceptors, i)
    /\ UNCHANGED <<operation_interceptors, ctx, last, cfg, auth, pipe>>

\* interceptors.operation_interceptors_mut().register(..)
RegisterOperation ==
    /\ last = NoDispatch
    /\ Len(operation_interceptors) < MaxRegistered
    /\ \E i \in InterceptorIds :
          operation_interceptors' = register(operation_interceptors, i)
    /\ UNCHANGED <<client_interceptors, ctx, last, cfg, auth, pipe>>

\* one call of a dispatch function
Dispatch ==
    /\ last = NoDispatch
    /\ \E fn \in DispatchFns :
      LET h == InnerName(fn)
          list == interceptors(client_interceptors, operation_interceptors)
      IN \E impl \in ImplBehaviours(h) :
           LET beh == BehaviourAt(list, impl)
               out == interceptor_impl_fn(h, list, beh, ContextIn(PhaseOf(h)))
           IN /\ ctx' = out.context
              /\ last' = Dispatched(fn, beh, list, out)
              /\ UNCHANGED <<client_interceptors, operation_interceptors, cfg, auth, pipe>>

\* one call of a dispatch function during which the first hook invoked
\* registers a further interceptor; the other hooks have the default body
DispatchRegistering ==
    /\ last = NoDispatch
    /\ interceptors(client_interceptors, operation_interceptors) # <<>>
    /\ \E fn \in DispatchFns, regs \in HookRegistrations :
      LET h == InnerName(fn)
          list == pass_interceptors(client_interceptors, operation_interceptors, regs)
          beh == [i \in 1..Len(list) |-> IF i = 1 THEN "reg" ELSE "ok"]
          out == interceptor_impl_fn(h, list, beh, ContextIn(PhaseOf(h)))
      IN /\ Len(IF regs[1].scope = "client" THEN client_interceptors
                ELSE operation_interceptors) < MaxRegistered
         /\ ctx' = out.context
         /\ last' = [Dispatched(fn, beh, list, out) EXCEPT !.registered = regs]
         /\ UNCHANGED <<client_interceptors, operation_interceptors, cfg, auth, pipe>>

\* the next call of the same dispatch function: the registrations made during
\* the call before have reached the registrars
DispatchNext ==
    /\ last.registered # <<>>
    /\ LET h == last.hook
           client == apply_registrations(client_interceptors, "client", last.registered)
           operation == apply_registrations(operation_interceptors, "operation",
                                            last.registered)
           list == pass_interceptors(client, operation, <<>>)
           beh == [i \in 1..Len(list) |-> "ok"]
           out == interceptor_impl_fn(h, list, beh, ContextIn(PhaseOf(h)))
       IN /\ client_interceptors' = client
          /\ operation_interceptors' = operation
          /\ ctx' = out.context
          /\ last' = [Dispatched(last.fn, beh, list, out)
                         EXCEPT !.added = last.registered, !.earlier = last.invoked]
    /\ UNCHANGED <<cfg, auth, pipe>>

NextDispatch ==
    \/ RegisterClient
    \/ RegisterOperation
    \/ Dispatch
    \/ DispatchRegistering
    \/ DispatchNext

SpecDispatch == InitDispatch /\ [][NextDispatch]_vars

(***************************************************************************)
(* DateTime specification: a DateTime is made by one of its constructors   *)
(* from any argument of the argument's type, and is then converted or      *)
(* compared.                                                               *)
(***************************************************************************)
\* seconds beyond either end of i64 that the epoch nanos given to from_nanos
\* reach
ExtraSeconds == 2

\* the i128 values from_nanos is given
EpochNanos ==
    ((I64_MIN - ExtraSeconds) * NANOS_PER_SECOND)
        ..((I64_MAX + ExtraSeconds + 1) * NANOS_PER_SECOND - 1)

\* the DateTimes d is compared with: at the ends of the range, around the
\* epoch and around d itself, with every sub-second value
ComparedWith(d) ==
    { DateTime(sec, n) :
        sec \in {I64_MIN, -1, 0, I64_MAX, d.seconds - 1, d.seconds, d.seconds + 1} \cap I64,
        n \in 0..(NANOS_PER_SECOND - 1) }

Constructors == {"from_millis", "from_secs_and_nanos", "from_nanos"}

InitDateTime ==
    /\ client_interceptors = <<>>
    /\ operation_interceptors = <<>>
    /\ ctx = ContextIn("BeforeSerialization")
    /\ last = NoDispatch
    /\ cfg = DefaultCfg
    /\ auth = NoAuth
    /\ NoPipeline
    /\ date_time = NoDateTimeCall

rest == <<client_interceptors, operation_interceptors, ctx, last, cfg, auth,
          pc, attempt, saved_request, prev_request, log, sent, events>>

\* DateTime::from_millis(epoch_millis)
FromMillis ==
    /\ date_time.op = ""
    /\ \E epoch_millis \in I64 :
          date_time' = [NoDateTimeCall EXCEPT !.op = "from_millis",
                                              !.made = "from_millis",
                                              !.arg = epoch_millis,
                                              !.d = from_millis(epoch_millis)]
    /\ UNCHANGED rest

\* DateTime::from_secs_and_nanos(seconds, subsecond_nanos)
FromSecsAndNanos ==
    /\ date_time.op = ""
    /\ \E seconds \in I64, subsecond_nanos \in U32 :
          date_time' = [NoDateTimeCall EXCEPT !.op = "from_secs_and_nanos",
                                              !.made = "from_secs_and_nanos",
                                              !.arg = seconds,
                                              !.nanos = subsecond_nanos,
                                              !.d = from_secs_and_nanos(seconds,
                                                                        subsecond_nanos)]
    /\ UNCHANGED rest

\* DateTime::from_nanos(epoch_nanos)
FromNanos ==
    /\ date_time.op = ""
    /\ \E epoch_nanos \in EpochNanos :
          date_time' = [NoDateTimeCall EXCEPT !.op = "from_nanos",
                                              !.made = "from_nanos",
                                              !.arg = epoch_nanos,
                                              !.back = from_nanos(epoch_nanos),
                                              !.d = from_nanos(epoch_nanos).value]
    /\ UNCHANGED rest

\* date_time.to_millis()
ToMillis ==
    /\ date_time.op \in Constructors
    /\ date_time.d # NoDateTime
    /\ date_time' = [date_time EXCEPT !.op = "to_millis", !.millis = to_millis(date_time.d)]
    /\ UNCHANGED rest

\* date_time.as_nanos()
AsNanos ==
    /\ date_time.op \in Constructors
    /\ date_time.d # NoDateTime
    /\ date_time' = [date_time EXCEPT !.op = "as_nanos", !.nanos = as_nanos(date_time.d)]
    /\ UNCHANGED rest

\* DateTime::from_nanos(date_time.as_nanos())
FromNanosOfAsNanos ==
    /\ date_time.op = "as_nanos"
    /\ date_time' = [date_time EXCEPT !.op = "from_nanos(as_nanos)",
                                      !.back = from_nanos(date_time.nanos)]
    /\ UNCHANGED rest

\* date_time.cmp(&other), date_time == other
Cmp ==
    /\ date_time.op = "from_secs_and_nanos"
    /\ date_time.d # NoDateTime
    /\ \E other \in ComparedWith(date_time.d) :
          date_time' = [date_time EXCEPT !.op = "cmp",
                                         !.other = other,
                                         !.ord = cmp(date_time.d, other),
                                         !.eq = eq(date_time.d, other)]
    /\ UNCHANGED rest

NextDateTime ==
    \/ FromMillis
    \/ FromSecsAndNanos
    \/ FromNanos
    \/ ToMillis
    \/ AsNanos
    \/ FromNanosOfAsNanos
    \/ Cmp

SpecDateTime == InitDateTime /\ [][NextDateTime]_vars

(***************************************************************************)
(* The execution pipeline: the orchestrator that drives one execution      *)
(* through the hook groups of trait Interceptor, the codec, the auth       *)
(* orchestrator, the transport and the retry policy.  The order of the     *)
(* steps and the routing of failures follow the "When" and "Error          *)
(* Behavior" paragraphs of the hooks; the dispatch functions and           *)
(* orchestrate_auth are the ones modelled above.                           *)
(***************************************************************************)
ExecutionScopeFns ==
    {"client_read_before_execution", "operation_read_before_execution",
     "modify_before_serialization", "read_before_serialization",
     "read_after_serialization", "modify_before_retry_loop"}

AttemptScopeFns ==
    {"read_before_attempt", "modify_before_signing", "read_before_signing",
     "read_after_signing", "modify_before_transmit", "read_before_transmit",
     "read_after_transmit", "modify_before_deserialization",
     "read_before_deserialization", "read_after_deserialization"}

\* a plausible slip: the retry policy is asked right after
\* modify_before_attempt_completion, before read_after_attempt has run
StepAfter_policy_early(fn) ==
    CASE fn = "client_read_before_execution" -> "apply_operation_configuration"
      [] fn = "operation_read_before_execution" -> "modify_before_serialization"
      [] fn = "modify_before_serialization" -> "read_before_serialization"
      [] fn = "read_before_serialization" -> "serialize"
      [] fn = "read_after_serialization" -> "modify_before_retry_loop"
      [] fn = "modify_before_retry_loop" -> "enter_retry_loop"
      [] fn = "read_before_attempt" -> "modify_before_signing"
      [] fn = "modify_before_signing" -> "read_before_signing"
      [] fn = "read_before_signing" -> "orchestrate_auth"
      [] fn = "read_after_signing" -> "modify_before_transmit"
      [] fn = "modify_before_transmit" -> "read_before_transmit"
      [] fn = "read_before_transmit" -> "send"
      [] fn = "read_after_transmit" -> "modify_before_deserialization"
      [] fn = "modify_before_deserialization" -> "read_before_deserialization"
      [] fn = "read_before_deserialization" -> "deserialize"
      [] fn = "read_after_deserialization" -> "modify_before_attempt_completion"
      [] fn = "modify_before_attempt_completion" -> "retry"
      [] fn = "read_after_attempt" -> "retry"
      [] fn = "modify_before_completion" -> "read_after_execution"
      [] OTHER -> "done"

\* the step that follows a dispatch function that returned Ok
StepAfter(fn) ==
    CASE fn = "client_read_before_execution" -> "apply_operation_configuration"
      [] fn = "operation_read_before_execution" -> "modify_before_serialization"
      [] fn = "modify_before_serialization" -> "read_before_serialization"
      [] fn = "read_before_serialization" -> "serialize"
      [] fn = "read_after_serialization" -> "modify_before_retry_loop"
      [] fn = "modify_before_retry_loop" -> "enter_retry_loop"
      [] fn = "read_before_attempt" -> "modify_before_signing"
      [] fn = "modify_before_signing" -> "read_before_signing"
      [] fn = "read_before_signing" -> "orchestrate_auth"
      [] fn = "read_after_signing" -> "modify_before_transmit"
      [] fn = "modify_before_transmit" -> "read_before_transmit"
      [] fn = "read_before_transmit" -> "send"
      [] fn = "read_after_transmit" -> "modify_before_deserialization"
      [] fn = "modify_before_deserialization" -> "read_before_deserialization"
      [] fn = "read_before_deserialization" -> "deserialize"
      [] fn = "read_after_deserialization" -> "modify_before_attempt_completion"
      [] fn = "modify_before_attempt_completion" -> "read_after_attempt"
      [] fn = "read_after_attempt" -> "retry"
      [] fn = "modify_before_completion" -> "read_after_execution"
      [] OTHER -> "done"

\* a plausible slip: the error is recorded but execution carries on with the
\* next hook group
JumpAfterError_continue(fn) == StepAfter(fn)

\* a plausible slip: a failing read_before_transmit is only reported, and the
\* request is sent all the same
JumpAfterError_send_anyway(fn) ==
    CASE fn = "client_read_before_execution" -> "apply_operation_configuration"
      [] fn = "read_before_transmit" -> "send"
      [] fn \in ExecutionScopeFns -> "modify_before_completion"
      [] fn \in AttemptScopeFns -> "modify_before_attempt_completion"
      [] OTHER -> StepAfter(fn)

\* a plausible slip: a failing modify_before_attempt_completion ends the
\* attempt at once, and read_after_attempt does not get to see the error
JumpAfterError_attempt_ends(fn) ==
    CASE fn = "client_read_before_execution" -> "apply_operation_configuration"
      [] fn \in ExecutionScopeFns -> "modify_before_completion"
      [] fn \in AttemptScopeFns -> "modify_before_attempt_completion"
      [] fn = "modify_before_attempt_completion" -> "retry"
      [] OTHER -> StepAfter(fn)

\* the step execution jumps to when a dispatch function returned Err
\* ("Error Behavior" of each hook)
JumpAfterError(fn) ==
    CASE fn = "client_read_before_execution" -> "apply_operation_configuration"
      [] fn \in ExecutionScopeFns -> "modify_before_completion"
      [] fn \in AttemptScopeFns -> "modify_before_attempt_completion"
      [] OTHER -> StepAfter(fn)

ErrorMsg(e) == [type |-> "Error", marks |-> {}, cause |-> e]

\* the raised error becomes the output_or_error; the context is handed on in
\* the phase of the completion hooks
InstallError(fn, context, e) ==
    [context EXCEPT !.output_or_error = ErrorMsg(e),
                    !.phase = IF fn = "client_read_before_execution"
                              THEN @ ELSE "AfterDeserialization"]

\* hook implementations explored in the pipeline keep the logical type
PipelineBehaviours(h) == BehavioursOf(h) \ {"mistype"}

Deviations(beh) == Cardinality({i \in 1..Len(beh) : beh[i] # "ok"})

LogEntry(fn, beh, invoked, result, context) ==
    [ fn |-> fn, hook |-> IF fn \in DispatchFns THEN InnerName(fn) ELSE "",
      attempt |-> attempt, beh |-> beh, invoked |-> invoked,
      result |-> result, request |-> context.request,
      ooe |-> context.output_or_error ]

\* a step that is not a hook group: codec, auth, transport, retry policy
Collaborator(fn, result, context) == LogEntry(fn, <<>>, <<>>, result, context)

TransportErr == [kind |-> "transport", hook |-> "send", by |-> 0]
ServiceErr == [kind |-> "service", hook |-> "deserialize", by |-> 0]

\* the configurations the pipeline is run under: no auth option at all, no
\* scheme registered, and every scheme offered and registered with no, only
\* the last, or every identity resolver
PipelineCfgs ==
    { [DefaultCfg EXCEPT !.auth_options = <<>>],
      [DefaultCfg EXCEPT !.http_auth_schemes = <<>>],
      [DefaultCfg EXCEPT !.identity_resolvers = <<>>],
      [DefaultCfg EXCEPT !.identity_resolvers = <<NumSchemes>>],
      DefaultCfg }

Init ==
    /\ client_interceptors = <<1>>
    /\ operation_interceptors = <<>>
    /\ ctx = ContextIn("BeforeSerialization")
    /\ last = NoDispatch
    /\ cfg \in PipelineCfgs
    /\ auth = NoAuth
    /\ pc = "client_read_before_execution"
    /\ attempt = 0
    /\ saved_request = None
    /\ prev_request = None
    /\ log = <<>>
    /\ sent = 0
    /\ events = 0
    /\ date_time = NoDateTimeCall

\* one hook group: the dispatch function named by pc is called on the context
HookGroup ==
    /\ pc \in DispatchFns
    /\ LET h == InnerName(pc)
           list == interceptors(client_interceptors, operation_interceptors)
       IN \E beh \in [1..Len(list) -> PipelineBehaviours(h)] :
            LET out == interceptor_impl_fn(h, list, beh, ctx)
            IN /\ events + Deviations(beh) <= MaxEvents
               /\ events' = events + Deviations(beh)
               /\ log' = Append(log, LogEntry(pc, beh, out.invoked, out.result, ctx))
               /\ IF out.result.ok
                  THEN IF pc = "operation_read_before_execution"
                          /\ ctx.output_or_error.type = "Error"
                       THEN /\ ctx' = [out.context EXCEPT !.phase = "AfterDeserialization"]
                            /\ pc' = "modify_before_completion"
                       ELSE /\ ctx' = out.context
                            /\ pc' = StepAfter(pc)
                  ELSE /\ ctx' = InstallError(pc, out.context, out.result.err)
                       /\ pc' = JumpAfterError(pc)
    /\ UNCHANGED <<client_interceptors, operation_interceptors, last, date_time, cfg, auth,
                   attempt, saved_request, prev_request, sent>>

\* the operation's runtime plugin registers the operation-scoped interceptors
ApplyOperationConfiguration ==
    /\ pc = "apply_operation_configuration"
    /\ operation_interceptors' = extend(operation_interceptors, <<2>>)
    /\ pc' = "operation_read_before_execution"
    /\ UNCHANGED <<client_interceptors, ctx, last, date_time, cfg, auth,
                   attempt, saved_request, prev_request, log, sent, events>>

\* the codec turns the input into the transport request
Serialize ==
    /\ pc = "serialize"
    /\ ctx' = [ctx EXCEPT !.phase = "BeforeTransmit",
                          !.request = [Msg("Request") EXCEPT !.marks = ctx.input.marks]]
    /\ log' = Append(log, Collaborator("serialize", OkResult, ctx))
    /\ pc' = "read_after_serialization"
    /\ UNCHANGED <<client_interceptors, operation_interceptors, last, date_time, cfg, auth,
                   attempt, saved_request, prev_request, sent, events>>

\* the attempt checkpoint is taken on entry to the retry loop
EnterRetryLoop ==
    /\ pc = "enter_retry_loop"
    /\ saved_request' = ctx.request
    /\ pc' = "start_attempt"
    /\ UNCHANGED <<client_interceptors, operation_interceptors, ctx, last, date_time, cfg, auth,
                   attempt, prev_request, log, sent, events>>

\* a plausible slip: the next attempt starts over from the phase the execution
\* began in
Rewind_to_first_phase(context, saved) ==
    [context EXCEPT !.phase = "BeforeSerialization",
                    !.request = saved,
                    !.response = None,
                    !.output_or_error = None]

\* a plausible slip: the next attempt carries on with the request as it is
Rewind_keeps_request(context, saved) ==
    [context EXCEPT !.phase = "BeforeTransmit",
                    !.response = None,
                    !.output_or_error = None]

\* the context of a new attempt: rebuilt from the checkpoint
Rewind(context, saved) ==
    [context EXCEPT !.phase = "BeforeTransmit",
                    !.request = saved,
                    !.response = None,
                    !.output_or_error = None]

StartAttempt ==
    /\ pc = "start_attempt"
    /\ attempt' = attempt + 1
    /\ ctx' = Rewind(ctx, saved_request)
    /\ auth' = NoAuth
    /\ sent' = 0
    /\ log' = IF attempt = 0 THEN log ELSE <<>>
    /\ prev_request' = IF attempt = 0 THEN prev_request ELSE ctx.request
    /\ pc' = "read_before_attempt"
    /\ UNCHANGED <<client_interceptors, operation_interceptors, last, date_time, cfg,
                   saved_request, events>>

AnswerFailures(a) ==
    (IF a.resolver_ok THEN 0 ELSE 1)
      + Cardinality({s \in SchemeIds : ~a.identity_ok[s]})
      + Cardinality({s \in SchemeIds : ~a.sign_ok[s]})

\* the request of the attempt is signed.  A collaborator that fails (resolver,
\* identity resolver, signer) counts as an event; "no auth scheme matched" is
\* decided by the configuration and does not.  When orchestrate_auth returns a
\* construction failure the context is gone with the checkpoint: no hook can
\* be dispatched on it any more, and the execution ends with the SdkError as
\* its result (pc = "early_return"; ctx keeps the context as it was dropped)
OrchestrateAuth ==
    /\ pc = "orchestrate_auth"
    /\ \E a \in Answers :
         LET out == orchestrate_auth(ctx, WithAnswers(cfg, a))
             failed == IF out.ok \/ out.err = NoAuthSchemeMatched THEN 0 ELSE 1
         IN /\ AnswerFailures(a) = failed
            /\ events + failed <= MaxEvents
            /\ events' = events + failed
            /\ auth' = [called |-> TRUE, out |-> out]
            /\ log' = Append(log, Collaborator("orchestrate_auth",
                                   IF out.ok THEN OkResult ELSE ErrResult(out.err), ctx))
            /\ IF out.ok
               THEN /\ ctx' = out.checkpoint
                    /\ pc' = "read_after_signing"
               ELSE IF CheckpointSurvives(out)
               THEN /\ ctx' = InstallError("orchestrate_auth", out.checkpoint, out.err)
                    /\ pc' = "modify_before_attempt_completion"
               ELSE /\ ctx' = ctx
                    /\ pc' = "early_return"
    /\ UNCHANGED <<client_interceptors, operation_interceptors, last, date_time, cfg,
                   attempt, saved_request, prev_request, sent>>

\* the transport sends the request and returns a response, or fails
Send ==
    /\ pc = "send"
    /\ sent' = sent + 1
    /\ \E ok \in BOOLEAN :
         IF ok
         THEN /\ ctx' = [ctx EXCEPT !.phase = "BeforeDeserialization",
                                    !.response = Msg("Response")]
              /\ log' = Append(log, Collaborator("send", OkResult, ctx))
              /\ pc' = "read_after_transmit"
              /\ events' = events
         ELSE /\ events < MaxEvents
              /\ events' = events + 1
              /\ ctx' = InstallError("send", ctx, TransportErr)
              /\ log' = Append(log, Collaborator("send", ErrResult(TransportErr), ctx))
              /\ pc' = "modify_before_attempt_completion"
    /\ UNCHANGED <<client_interceptors, operation_interceptors, last, date_time, cfg, auth,
                   attempt, saved_request, prev_request>>

\* the codec turns the response into the output or the operation's error
Deserialize ==
    /\ pc = "deserialize"
    /\ \E ok \in BOOLEAN :
         /\ IF ok
            THEN /\ ctx' = [ctx EXCEPT !.phase = "AfterDeserialization",
                                       !.output_or_error =
                                           [Msg("Output") EXCEPT !.marks = ctx.response.marks]]
                 /\ events' = events
            ELSE /\ events < MaxEvents
                 /\ events' = events + 1
                 /\ ctx' = [ctx EXCEPT !.phase = "AfterDeserialization",
                                       !.output_or_error = ErrorMsg(ServiceErr)]
         /\ log' = Append(log, Collaborator("deserialize", OkResult, ctx))
         /\ pc' = "read_after_deserialization"
    /\ UNCHANGED <<client_interceptors, operation_interceptors, last, date_time, cfg, auth,
                   attempt, saved_request, prev_request, sent>>

\* a plausible slip: only the construction failures are taken as fatal
Fatal_construction_only(e) == e.kind = "construction_failure"

\* the failures of orchestrate_auth that are fatal: a failing auth option or
\* identity resolver (construction failure) and "no auth scheme matched" are
\* configuration bugs and are never retried
Fatal(e) == e.kind \in {"construction_failure", "no_auth_scheme_matched"}

\* the retry policy is given the attempt's output_or_error and asked whether
\* to make another attempt; only a failed attempt is retried, and none whose
\* auth orchestration failed fatally, whatever the policy answers
RetryDecision ==
    /\ pc = "retry"
    /\ \E again \in BOOLEAN :
         /\ again => (/\ attempt < MaxAttempts
                      /\ ctx.output_or_error.type = "Error"
                      /\ ~Fatal(auth.out.err))
         /\ log' = Append(log, Collaborator(IF again THEN "retry" ELSE "stop", OkResult, ctx))
         /\ pc' = IF again THEN "start_attempt" ELSE "modify_before_completion"
    /\ UNCHANGED <<client_interceptors, operation_interceptors, ctx, last, date_time, cfg, auth,
                   attempt, saved_request, prev_request, sent, events>>

Next ==
    \/ HookGroup
    \/ ApplyOperationConfiguration
    \/ Serialize
    \/ EnterRetryLoop
    \/ StartAttempt
    \/ OrchestrateAuth
    \/ Send
    \/ Deserialize
    \/ RetryDecision

Spec == Init /\ [][Next]_vars

\* the orchestrator is one sequential async fn: it takes its next step as soon
\* as the call it awaits (a hook, a collaborator) has returned
SpecLive == Spec /\ WF_vars(Next)

(***************************************************************************)
(* Properties of the dispatcher (checked under SpecDispatch).              *)
(***************************************************************************)
FailingAt(d) == {p \in 1..Len(d.beh) : d.beh[p] = "err"}
Latest(S) == CHOOSE p \in S : \A q \in S : q <= p

\* C1: one dispatch, at any hook point and for any number of client- and
\* operation-scoped interceptors, invokes every client-scoped interceptor in
\* registration order and only then every operation-scoped interceptor in
\* registration order.
C1_ClientBeforeOperation ==
    last.fn # "" =>
        LET nc == Len(client_interceptors)
            no == Len(operation_interceptors)
        IN /\ Len(last.invoked) = nc + no
           /\ \A i \in 1..nc :
                 last.invoked[i] =
                     [scope |-> "client", idx |-> i, id |-> client_interceptors[i]]
           /\ \A j \in 1..no :
                 last.invoked[nc + j] =
                     [scope |-> "operation", idx |-> j, id |-> operation_interceptors[j]]

C1_Witness ==
    /\ last.fn = "read_before_transmit"
    /\ Len(client_interceptors) = 2
    /\ Len(operation_interceptors) = 2
    /\ last.invoked[2].scope = "client"
    /\ last.invoked[3].scope = "operation"

\* the registry entry a registration gets: the next free slot of its scope
NewEntry(client, operation, r) ==
    [scope |-> r.scope,
     idx |-> (IF r.scope = "client" THEN Len(client) ELSE Len(operation)) + 1,
     id |-> r.id]

C2_LatestErrorWins ==
    (last.fn # "" /\ last.hook \in CollectHooks) =>
        \A i, j \in FailingAt(last) :
            i < j =>
                /\ Len(last.invoked) = Len(last.list)
                /\ ~last.result.ok
                /\ last.result.err.by # i
                /\ last.result.err = InterceptorError(last.hook,
                                         HookErr(last.hook, Latest(FailingAt(last))))

C2_Witness ==
    /\ last.fn = "read_before_attempt"
    /\ Len(last.list) = 3
    /\ FailingAt(last) = {1, 2}
    /\ Len(last.invoked) = 3
    /\ last.result.err.by = 2

\* C3: at every fail-fast hook point (all but read_before_execution and
\* read_before_attempt), when the hook at position i fails no hook at a later
\* position is invoked in that dispatch.
C3_FailFastStops ==
    (last.fn # "" /\ last.hook \notin CollectHooks) =>
        \A i \in FailingAt(last) : Len(last.invoked) <= i

\* C10: at every modify hook point, a hook that leaves a value of another
\* logical type makes the dispatch fail at once with a type-constraint
\* violation, and no later hook of the group runs on the mistyped value.
C10_MistypedValueRejected ==
    (last.fn # "" /\ last.hook \in ModifyHooks) =>
        \A i \in 1..Len(last.beh) :
            last.beh[i] = "mistype" =>
                /\ ~last.result.ok
                /\ Len(last.invoked) <= i

\* sequence s without its element at position p
DropAt(s, p) == [q \in 1..(Len(s) - 1) |-> IF q < p THEN s[q] ELSE s[q + 1]]

\* the position in the full list of the interceptor that is at position q once
\* the one at position p is left out
ShiftPos(p, q) == IF q < p THEN q ELSE q + 1

\* a dispatch outcome of the list without position p, told in the positions
\* of the full list
ShiftErr(p, e) == IF e.kind = "none" THEN e ELSE [e EXCEPT !.by = ShiftPos(p, @)]

ShiftMsg(p, m) == [m EXCEPT !.marks = {<<x[1], ShiftPos(p, x[2])>> : x \in @}]

ShiftContext(p, context) ==
    [ phase |-> context.phase,
      input |-> ShiftMsg(p, context.input),
      request |-> ShiftMsg(p, context.request),
      response |-> ShiftMsg(p, context.response),
      output_or_error |-> ShiftMsg(p, context.output_or_error) ]

\* C11: an interceptor that overrides no hook (every hook has the default
\* body) changes nothing at any hook point: the dispatch returns the result,
\* and leaves the context and the configuration, that the same dispatch
\* returns and leaves when that interceptor is not registered.
C11_DefaultInterceptorIsNeutral ==
    last.fn # "" =>
        \A p \in 1..Len(last.beh) :
            last.beh[p] = "ok" =>
                LET without == interceptor_impl_fn(last.hook, DropAt(last.list, p),
                                   DropAt(last.beh, p), ContextIn(PhaseOf(last.hook)))
                IN /\ last.result.ok = without.result.ok
                   /\ last.result.err = ShiftErr(p, without.result.err)
                   /\ ctx = ShiftContext(p, without.context)
                   /\ cfg = DefaultCfg

C11_Witness ==
    /\ last.fn = "modify_before_transmit"
    /\ last.beh = <<"err", "ok", "err", "ok">>
    /\ ~last.result.ok
    /\ last.result.err.by = 3
    /\ ctx = ContextIn("BeforeTransmit")

(***************************************************************************)
(* Properties of orchestrate_auth (checked under SpecAuth).                *)
(***************************************************************************)
\* a candidate with both a registered scheme and an identity resolver
Usable(c, s) == s \in Range(c.http_auth_schemes) /\ s \in Range(c.identity_resolvers)

FirstUsableAt(c, i) ==
    /\ i \in 1..Len(c.auth_options)
    /\ Usable(c, c.auth_options[i])
    /\ \A j \in 1..(i - 1) : ~Usable(c, c.auth_options[j])

\* C4: the request is signed by the signer of the first auth option, in the
\* resolver's order, that has both a registered scheme and an identity
\* resolver; options lacking either are skipped without failing.
C4_FirstUsableSigns ==
    (auth.called /\ cfg.resolver_ok) =>
        \A i \in 1..Len(cfg.auth_options) :
            FirstUsableAt(cfg, i) =>
                LET w == cfg.auth_options[i]
                IN /\ auth.out.resolved = <<w>>
                   /\ auth.out.err # NoAuthSchemeMatched
                   /\ cfg.identity_ok[w] => auth.out.signers = <<w>>
                   /\ (cfg.identity_ok[w] /\ cfg.sign_ok[w]) =>
                         /\ auth.out.ok
                         /\ ctx.request.marks = {<<"signed", w>>}

C4_Witness ==
    /\ auth.called
    /\ cfg.auth_options = <<1, 2>>
    /\ cfg.http_auth_schemes = <<2>>
    /\ cfg.identity_resolvers = <<2>>
    /\ auth.out.ok
    /\ ctx.request.marks = {<<"signed", 2>>}

\* the members of S registered in ascending order
Sorted(S) == CHOOSE s \in Orderings(SchemeIds) :
                /\ Range(s) = S
                /\ \A i, j \in 1..Len(s) : i < j => s[i] < s[j]

\* C5: among several usable candidates the winner depends only on the order
\* of the auth options: whatever the order in which the schemes and the
\* identity resolvers were registered, the outcome and the signer applied are
\* those obtained with the same schemes and resolvers registered in ascending
\* order of their ids.
C5_RegistrationOrderIrrelevant ==
    auth.called =>
        orchestrate_auth(ContextIn("BeforeTransmit"),
            [cfg EXCEPT !.http_auth_schemes = Sorted(Range(cfg.http_auth_schemes)),
                        !.identity_resolvers = Sorted(Range(cfg.identity_resolvers))])
          = auth.out

C5_Witness ==
    /\ auth.called
    /\ cfg.auth_options = <<2, 1>>
    /\ cfg.http_auth_schemes = <<1, 2>>
    /\ cfg.identity_resolvers = <<1, 2>>
    /\ auth.out.ok
    /\ auth.out.signers = <<2>>

\* C14: when the auth option resolver fails, orchestrate_auth returns a
\* construction failure; it looks up no scheme, resolves no identity and
\* invokes no signer, and the checkpoint (its request included) is as it was
\* handed in.
C14_ResolverFailure ==
    (auth.called /\ ~cfg.resolver_ok) =>
        /\ ~auth.out.ok
        /\ auth.out.err = construction_failure("resolve_auth_options")
        /\ auth.out.looked = <<>>
        /\ auth.out.resolved = <<>>
        /\ auth.out.signers = <<>>
        /\ ctx = ContextIn("BeforeTransmit")

C14_Witness ==
    /\ auth.called
    /\ ~cfg.resolver_ok
    /\ cfg.auth_options = <<1, 2>>
    /\ cfg.http_auth_schemes = <<1, 2>>
    /\ cfg.identity_resolvers = <<1, 2>>
    /\ \A x \in SchemeIds : cfg.identity_ok[x] /\ cfg.sign_ok[x]
    /\ auth.out.err.kind = "construction_failure"
    /\ ctx.request.marks = {}

\* C15: when the identity resolver of the selected candidate (the first auth
\* option with a registered scheme and an identity resolver) fails,
\* orchestrate_auth returns a construction failure and invokes no signer: the
\* request stays unsigned and the checkpoint is as it was handed in.
C15_IdentityFailure ==
    (auth.called /\ cfg.resolver_ok) =>
        \A i \in 1..Len(cfg.auth_options) :
            (FirstUsableAt(cfg, i) /\ ~cfg.identity_ok[cfg.auth_options[i]]) =>
                /\ ~auth.out.ok
                /\ auth.out.err = construction_failure("resolve_identity")
                /\ auth.out.resolved = <<cfg.auth_options[i]>>
                /\ auth.out.signers = <<>>
                /\ ctx = ContextIn("BeforeTransmit")

C15_Witness ==
    /\ auth.called
    /\ cfg.resolver_ok
    /\ cfg.auth_options = <<2, 1>>
    /\ cfg.http_auth_schemes = <<1, 2>>
    /\ cfg.identity_resolvers = <<1, 2>>
    /\ ~cfg.identity_ok[2]
    /\ cfg.identity_ok[1]
    /\ \A x \in SchemeIds : cfg.sign_ok[x]
    /\ auth.out.err = construction_failure("resolve_identity")
    /\ auth.out.resolved = <<2>>
    /\ ctx.request.marks = {}

(***************************************************************************)
(* Properties of the execution pipeline (checked under Spec).              *)
(***************************************************************************)
\* C6: when the resolver returned auth options of which none (the empty list
\* included) has both a registered scheme and an identity resolver,
\* orchestrate_auth fails with "no auth scheme matched", no signer is invoked
\* and the transport send is not invoked in that attempt.
C6_NoMatchNoSend ==
    (/\ auth.called
     /\ auth.out.err # construction_failure("resolve_auth_options")
     /\ \A i \in 1..Len(cfg.auth_options) : ~Usable(cfg, cfg.auth_options[i])) =>
        /\ ~auth.out.ok
        /\ auth.out.err = NoAuthSchemeMatched
        /\ auth.out.signers = <<>>
        /\ sent = 0

C6_Witness ==
    /\ pc = "done"
    /\ auth.called
    /\ cfg.auth_options # <<>>
    /\ cfg.http_auth_schemes = <<>>
    /\ auth.out.err = NoAuthSchemeMatched
    /\ sent = 0

\* C7: the request seen by read_before_attempt of every attempt, also of an
\* attempt that follows one which changed the request (by a modify hook or
\* the signer) and failed, is the request as it stood on entry to the retry
\* loop: it carries no mark left by an attempt-scoped hook or by a signer.
C7_AttemptIsolation ==
    \A k \in 1..Len(log) :
        log[k].fn = "read_before_attempt" =>
            /\ log[k].request = saved_request
            /\ \A m \in log[k].request.marks :
                  m[1] \in {"modify_before_serialization", "modify_before_retry_loop"}

C7_Witness ==
    /\ attempt = 2
    /\ Len(log) >= 1
    /\ log[1].fn = "read_before_attempt"
    /\ prev_request # saved_request
    /\ <<"signed", 1>> \in prev_request.marks
    /\ <<"modify_before_signing", 1>> \in prev_request.marks
    /\ log[1].request = saved_request

\* the hook points in the order the execution dispatched them
HookSeq(l) == SelectSeq([k \in 1..Len(l) |-> l[k].hook], LAMBDA x : x # "")

RECURSIVE Dedup(_)
Dedup(q) ==
    IF Len(q) <= 1 THEN q
    ELSE IF q[1] = q[2] THEN Dedup(Tail(q))
    ELSE <<q[1]>> \o Dedup(Tail(q))

\* how often hook h of the interceptor `who` was invoked
Invocations(l, h, who) ==
    Cardinality({<<k, i>> \in (1..Len(l)) \X (1..(2 * MaxRegistered)) :
                    /\ l[k].hook = h
                    /\ i <= Len(l[k].invoked)
                    /\ l[k].invoked[i] = who})

SucceededFirstTry ==
    /\ pc = "done"
    /\ attempt = 1
    /\ ctx.output_or_error.type = "Output"
    /\ \A k \in 1..Len(log) : log[k].result.ok

\* C8: in an execution that succeeds on its first attempt with no hook
\* failure, every hook of every registered interceptor is invoked exactly
\* once, and the hook points occur in phase order.
C8_EachHookOnce ==
    SucceededFirstTry =>
        /\ Dedup(HookSeq(log)) = HookOrder
        /\ \A h \in Hooks :
             \A i \in 1..Len(interceptors(client_interceptors, operation_interceptors)) :
                Invocations(log, h,
                    interceptors(client_interceptors, operation_interceptors)[i]) = 1

\* the error a failed dispatch returns: that of the latest failing hook
ReturnedError(e) ==
    InterceptorError(e.hook, HookErr(e.hook, Latest(FailingAt(e))))

\* the step after log entry k, and the output_or_error it found
FollowedBy(k, fn, ooe) ==
    IF k < Len(log)
    THEN log[k + 1].fn = fn /\ log[k + 1].ooe = ooe
    ELSE pc = fn /\ ctx.output_or_error = ooe

\* C9: a failure in an execution-scope hook group skips every later step up to
\* modify_before_completion, which finds the hook's error as output_or_error
\* (after a failing client_read_before_execution only the rest of that group,
\* operation_read_before_execution, still runs); a failure in an
\* attempt-scope hook group skips the rest of the attempt up to
\* modify_before_attempt_completion of the same attempt, which finds the
\* hook's error as output_or_error.
C9_FailureJumpsToCompletion ==
    \A k \in 1..Len(log) :
        LET e == log[k]
        IN /\ (e.fn = "client_read_before_execution" /\ ~e.result.ok) =>
                /\ e.result.err = ReturnedError(e)
                /\ k < Len(log) =>
                      /\ log[k + 1].fn = "operation_read_before_execution"
                      /\ log[k + 1].ooe = ErrorMsg(e.result.err)
           /\ (e.fn = "operation_read_before_execution" /\ e.result.ok
                    /\ e.ooe.type = "Error") =>
                FollowedBy(k, "modify_before_completion", e.ooe)
           /\ (e.fn \in ExecutionScopeFns \ {"client_read_before_execution"}
                    /\ ~e.result.ok) =>
                FollowedBy(k, "modify_before_completion", ErrorMsg(ReturnedError(e)))
           /\ (e.fn \in AttemptScopeFns /\ ~e.result.ok) =>
                /\ FollowedBy(k, "modify_before_attempt_completion",
                              ErrorMsg(ReturnedError(e)))
                /\ k < Len(log) => log[k + 1].attempt = e.attempt

C9_Witness ==
    /\ pc = "retry"
    /\ \E k \in 1..(Len(log) - 1) :
          /\ log[k].fn = "read_after_signing"
          /\ FailingAt(log[k]) = {1, 2}
          /\ log[k + 1].fn = "modify_before_attempt_completion"
          /\ log[k + 1].ooe.type = "Error"
          /\ log[k + 1].ooe.cause.by = 2

\* the steps of an attempt between read_before_attempt and the attempt's
\* completion hooks
AttemptSteps == AttemptScopeFns \cup {"orchestrate_auth", "send", "deserialize"}

NoSchemeMatched == auth.called /\ auth.out.err = NoAuthSchemeMatched

Finished == pc \in {"done", "early_return"}

\* the log entries of dispatch function fn
EntriesOf(fn) == {k \in 1..Len(log) : log[k].fn = fn}

\* every registered interceptor is invoked once by the dispatch of entry k
InvokesAllOnce(k) ==
    log[k].invoked = interceptors(client_interceptors, operation_interceptors)

\* C17: modify_before_completion and read_after_execution are each dispatched
\* exactly once per execution, in this order and as its last two steps: never
\* inside the retry loop, never twice, and on every path to the end of the
\* execution, whether a hook, the signer, the transport or the codec failed
\* and however many attempts were made.
C17_CompletionOncePerExecution ==
    /\ Cardinality(EntriesOf("modify_before_completion")) <= 1
    /\ Cardinality(EntriesOf("read_after_execution")) <= 1
    /\ EntriesOf("modify_before_completion") # {} =>
          pc \in {"read_after_execution", "done"}
    /\ EntriesOf("read_after_execution") # {} => pc = "done"
    /\ Finished =>
          /\ Len(log) >= 2
          /\ EntriesOf("modify_before_completion") = {Len(log) - 1}
          /\ EntriesOf("read_after_execution") = {Len(log)}
          /\ InvokesAllOnce(Len(log) - 1)
          /\ InvokesAllOnce(Len(log))

\* the log entries of dispatch function fn made in the current attempt
EntriesInAttempt(fn) == {k \in EntriesOf(fn) : log[k].attempt = attempt}

\* C18: in every attempt in which read_before_attempt was dispatched,
\* modify_before_attempt_completion and read_after_attempt are each dispatched
\* exactly once, as the attempt's last two hook groups, also when the attempt
\* failed part-way; in an execution that failed before read_before_attempt
\* neither is dispatched.
C18_AttemptCompletionOncePerAttempt ==
    /\ Cardinality(EntriesOf("modify_before_attempt_completion")) <= 1
    /\ Cardinality(EntriesOf("read_after_attempt")) <= 1
    /\ \A k \in EntriesOf("modify_before_attempt_completion")
                   \cup EntriesOf("read_after_attempt") :
          /\ log[k].attempt = attempt
          /\ \E j \in EntriesInAttempt("read_before_attempt") : j < k
    /\ (attempt >= 1 /\ pc \in {"retry", "start_attempt", "modify_before_completion",
                                  "read_after_execution", "done", "early_return"}) =>
          /\ Cardinality(EntriesInAttempt("read_before_attempt")) = 1
          /\ \E k \in EntriesInAttempt("modify_before_attempt_completion") :
                /\ EntriesInAttempt("read_after_attempt") = {k + 1}
                /\ InvokesAllOnce(k)
                /\ InvokesAllOnce(k + 1)
                /\ \A j \in (k + 2)..Len(log) : log[j].fn \notin AttemptSteps
    /\ attempt = 0 =>
          /\ EntriesOf("read_before_attempt") = {}
          /\ EntriesOf("modify_before_attempt_completion") = {}
          /\ EntriesOf("read_after_attempt") = {}

\* the output_or_error the step after log entry k found (or, after the last
\* entry, the one the context holds)
OoeAfter(k) == IF k < Len(log) THEN log[k + 1].ooe ELSE ctx.output_or_error

\* C19: in the end groups read_after_attempt and read_after_execution every
\* registered hook is invoked, also the hooks after one that failed, and when
\* several hooks fail the error of the latest one is returned and becomes the
\* output_or_error.
C19_EndGroupsCollect ==
    \A k \in EntriesOf("read_after_attempt") \cup EntriesOf("read_after_execution") :
        /\ InvokesAllOnce(k)
        /\ FailingAt(log[k]) # {} =>
              /\ log[k].result = ErrResult(ReturnedError(log[k]))
              /\ OoeAfter(k) = ErrorMsg(ReturnedError(log[k]))
              /\ k < Len(log) =>
                    /\ log[k].fn = "read_after_attempt"
                    /\ log[k + 1].fn \in {"retry", "stop"}

C19_Witness ==
    /\ pc = "done"
    /\ \E k \in EntriesOf("read_after_attempt") :
          /\ FailingAt(log[k]) = {1, 2}
          /\ Len(log[k].invoked) = 2
          /\ log[k].result.err.by = 2
          /\ log[k + 1].ooe = ErrorMsg(InterceptorError("read_after_attempt",
                                            HookErr("read_after_attempt", 2)))

C19_WitnessExecution ==
    /\ pc = "done"
    /\ \E k \in EntriesOf("read_after_execution") :
          /\ FailingAt(log[k]) = {1, 2}
          /\ Len(log[k].invoked) = 2
          /\ ctx.output_or_error = ErrorMsg(InterceptorError("read_after_execution",
                                                HookErr("read_after_execution", 2)))

PhaseRank(ph) ==
    CASE ph = "BeforeSerialization" -> 1
      [] ph = "BeforeTransmit" -> 2
      [] ph = "BeforeDeserialization" -> 3
      [] ph = "AfterDeserialization" -> 4

\* C20: a step of the execution leaves the phase of the context where it is or
\* moves it to a later phase of BeforeSerialization, BeforeTransmit,
\* BeforeDeserialization, AfterDeserialization; the one exception is the step
\* that starts a new attempt, which puts the context in BeforeTransmit.
C20_PhaseOnlyAdvances ==
    [][IF attempt' # attempt
       THEN attempt' = attempt + 1 /\ ctx'.phase = "BeforeTransmit"
       ELSE PhaseRank(ctx'.phase) >= PhaseRank(ctx.phase)]_vars

C20_Witness ==
    /\ attempt = 2
    /\ ctx.phase = "BeforeDeserialization"
    /\ pc = "read_after_transmit"

Present(m) == m.type # "None"

\* the presence of the fields is the one of the phase
FieldsOfPhase ==
    /\ ctx.phase = "BeforeSerialization" => ~Present(ctx.request)
    /\ PhaseRank(ctx.phase) >= 2 => Present(ctx.request)
    /\ PhaseRank(ctx.phase) < 3 => ~Present(ctx.response)
    /\ PhaseRank(ctx.phase) < 4 =>
          (Present(ctx.output_or_error) => ctx.output_or_error.type = "Error")

\* the hook group about to be dispatched finds the fields its documentation
\* calls ALWAYS available
HookFindsItsFields ==
    pc \in DispatchFns =>
        \A f \in AlwaysAvailable(InnerName(pc)) : Present(ctx[f])

\* C21: in every state the presence of the context fields follows from the
\* phase (request absent in BeforeSerialization and present from
\* BeforeTransmit on, response absent before BeforeDeserialization,
\* output_or_error absent before AfterDeserialization unless a failure
\* installed an error), and every hook group is dispatched on a context that
\* holds the fields its documentation calls ALWAYS available.
C21_FieldsByPhase == FieldsOfPhase /\ HookFindsItsFields

\* the transport may be invoked after log entry k: orchestrate_auth returned Ok
\* in this attempt and signed the request, and the two hook groups before
\* transmit followed and returned Ok
ReadyToSendAfter(k) ==
    /\ k >= 4
    /\ log[k].fn = "read_before_transmit" /\ log[k].result.ok
    /\ log[k - 1].fn = "modify_before_transmit" /\ log[k - 1].result.ok
    /\ log[k - 2].fn = "read_after_signing" /\ log[k - 2].result.ok
    /\ log[k - 3].fn = "orchestrate_auth" /\ log[k - 3].result.ok
    /\ \A j \in (k - 3)..k : log[j].attempt = attempt
    /\ auth.called /\ auth.out.ok
    /\ <<"signed", auth.out.signers[1]>> \in ctx.request.marks

\* C22: the transport send is invoked at most once in an attempt, and only
\* when orchestrate_auth returned Ok in that attempt and the
\* modify_before_transmit and read_before_transmit groups then returned Ok;
\* an attempt in which orchestrate_auth failed sends nothing.
C22_SendOncePerAttemptAfterAuth ==
    /\ sent <= 1
    /\ Cardinality(EntriesInAttempt("send")) = sent
    /\ pc = "send" => (sent = 0 /\ ReadyToSendAfter(Len(log)))
    /\ \A k \in EntriesInAttempt("send") : ReadyToSendAfter(k - 1)
    /\ (auth.called /\ ~auth.out.ok) => (sent = 0 /\ pc # "send")
    /\ ~auth.called => (sent = 0 /\ pc # "send")

C22_Witness ==
    /\ attempt = 2
    /\ sent = 1
    /\ pc = "read_after_transmit"
    /\ <<"signed", 1>> \in prev_request.marks
    /\ <<"signed", 1>> \in ctx.request.marks
    /\ log[Len(log)].fn = "send"

\* the log entries that record the retry policy's answer
Consultations == EntriesOf("retry") \cup EntriesOf("stop")

\* C23: the retry policy is consulted only right after the attempt-completion
\* hook groups (modify_before_attempt_completion, then read_after_attempt) of
\* the current attempt, and once per completed attempt; an attempt after the
\* first starts only when the policy has just answered "retry", and none
\* starts after "stop".
C23_PolicyAfterAttemptCompletion ==
    /\ Cardinality(Consultations) <= 1
    /\ \A k \in Consultations :
          /\ k >= 3
          /\ log[k - 1].fn = "read_after_attempt"
          /\ log[k - 2].fn = "modify_before_attempt_completion"
          /\ \A j \in (k - 2)..k : log[j].attempt = attempt
    /\ pc = "retry" => Consultations = {}
    /\ (attempt >= 1 /\ pc \in {"start_attempt", "modify_before_completion",
                                  "read_after_execution", "done"}) =>
          Cardinality(Consultations) = 1
    /\ (attempt >= 1 /\ pc = "start_attempt") => log[Len(log)].fn = "retry"
    /\ EntriesOf("stop") # {} =>
          pc \in {"modify_before_completion", "read_after_execution", "done"}
    /\ EntriesOf("retry") # {} => pc = "start_attempt"

C23_Witness ==
    /\ attempt = 1
    /\ pc = "start_attempt"
    /\ log[Len(log)].fn = "retry"
    /\ log[Len(log) - 1].fn = "read_after_attempt"
    /\ log[Len(log)].ooe.type = "Error"

\* the log entries of a failure raised inside the core: a failing hook group or
\* a failing orchestrate_auth
CoreFailures ==
    {k \in 1..Len(log) :
        log[k].fn \in DispatchFns \cup {"orchestrate_auth"} /\ ~log[k].result.ok}

\* C24: every failure raised inside the core (hook, signer, auth option
\* resolution, identity resolution, no auth scheme matched) is installed as
\* the output_or_error of the context, which the next step finds; the execution
\* never ends along an early return that leaves the context behind; and at its
\* end the context holds an error and the completion hooks have run on it.
C24_FailuresReachCallerInContext ==
    /\ pc # "early_return"
    /\ \A k \in CoreFailures : OoeAfter(k) = ErrorMsg(log[k].result.err)
    /\ (pc = "done" /\ CoreFailures # {}) =>
          /\ ctx.output_or_error.type = "Error"
          /\ EntriesOf("modify_before_completion") # {}
          /\ EntriesOf("read_after_execution") # {}

\* the entries of the config store: the auth options the resolver returns and
\* the two registries, in registration order
StoreEntries(c) ==
    [ auth_options |-> c.auth_options,
      http_auth_schemes |-> c.http_auth_schemes,
      identity_resolvers |-> c.identity_resolvers ]

\* C25: a call of orchestrate_auth leaves the identity resolver registry, the
\* auth scheme registry and every other entry of the config store as they
\* were, whatever its outcome; the interceptor registrars are left alone too.
C25_AuthLeavesConfigAlone ==
    [][(~auth.called /\ auth'.called) =>
          /\ StoreEntries(cfg') = StoreEntries(cfg)
          /\ DOMAIN cfg' = DOMAIN cfg
          /\ client_interceptors' = client_interceptors
          /\ operation_interceptors' = operation_interceptors]_vars

C25_Witness ==
    /\ auth.called
    /\ auth.out.ok
    /\ Len(auth.out.resolved) = 1
    /\ auth.out.signers = auth.out.resolved
    /\ auth.out.resolved[1] \in Range(cfg.identity_resolvers)
    /\ auth.out.resolved[1] \in Range(cfg.http_auth_schemes)
    /\ Len(cfg.identity_resolvers) = NumSchemes

C25_WitnessFailed ==
    /\ auth.called
    /\ ~auth.out.ok
    /\ Len(auth.out.resolved) = 1
    /\ auth.out.resolved[1] \in Range(cfg.identity_resolvers)

\* how often interceptor i is registered in registrar r
Registered(r, i) == Cardinality({k \in 1..Len(r) : r[k] = i})

\* how often the last dispatch invoked a hook of interceptor i
InvokedOf(i) == Cardinality({k \in 1..Len(last.invoked) : last.invoked[k].id = i})

\* C26: a registrar keeps every registration, in order and without
\* de-duplication: register adds exactly one entry at the end, extend with n
\* interceptors adds n entries in iteration order, both leave the earlier
\* entries in place, and an interceptor that is registered several times is
\* dispatched once per registration.
C26_RegistrarKeepsEveryRegistration ==
    /\ last = NoDispatch =>
          \A r \in {client_interceptors, operation_interceptors} :
             /\ \A i \in InterceptorIds :
                   LET r2 == register(r, i)
                   IN /\ Len(r2) = Len(r) + 1
                      /\ r2[Len(r2)] = i
                      /\ SubSeq(r2, 1, Len(r)) = r
             /\ \A iter \in Registrars :
                   LET r2 == extend(r, iter)
                   IN /\ Len(r2) = Len(r) + Len(iter)
                      /\ SubSeq(r2, 1, Len(r)) = r
                      /\ SubSeq(r2, Len(r) + 1, Len(r2)) = iter
    /\ last.fn # "" =>
          \A i \in InterceptorIds :
             InvokedOf(i) = Registered(client_interceptors, i)
                              + Registered(operation_interceptors, i)

C26_Witness ==
    /\ last.fn = "modify_before_signing"
    /\ client_interceptors = <<1, 1>>
    /\ operation_interceptors = <<1>>
    /\ InvokedOf(1) = 3
    /\ last.invoked[1].id = last.invoked[2].id

\* the marks the hooks before position p of the last dispatch put on the message
MarksBefore(p) ==
    {<<last.hook, q>> : q \in {q \in 1..(p - 1) : last.beh[q] = "mut"}}

\* C27: in a modify hook group the hook at position p is handed the message
\* exactly as the hooks at the positions before p left it (every change of
\* theirs, nothing else), the other fields of the context as the dispatch
\* found them, and the message the last hook left is the one the context holds
\* when the dispatch returns, which the next step of the pipeline works on.
C27_ModifyHooksChain ==
    (last.fn # "" /\ last.hook \in ModifyHooks) =>
        LET f == TargetOf(last.hook)
            start == ContextIn(PhaseOf(last.hook))
            n == Len(last.list)
            TypeBefore(p) == IF \E q \in 1..(p - 1) : last.beh[q] = "mistype"
                             THEN "Other" ELSE start[f].type
        IN /\ Len(last.seen) = n
           /\ \A p \in 1..n :
                 /\ last.seen[p][f].marks = MarksBefore(p)
                 /\ last.seen[p][f].type = TypeBefore(p)
                 /\ \A g \in DOMAIN start \ {f} : last.seen[p][g] = start[g]
           /\ ctx[f].marks = MarksBefore(n + 1)
           /\ ctx[f].type = TypeBefore(n + 1)
           /\ \A g \in DOMAIN start \ {f} : ctx[g] = start[g]

C27_Witness ==
    /\ last.fn = "modify_before_transmit"
    /\ Len(last.list) = 3
    /\ last.beh = <<"mut", "mut", "err">>
    /\ last.seen[2].request.marks = {<<"modify_before_transmit", 1>>}
    /\ last.seen[3].request.marks =
          {<<"modify_before_transmit", 1>>, <<"modify_before_transmit", 2>>}
    /\ ctx.request = last.seen[3].request

\* the messages a context holds
MessageFields == {"input", "request", "response", "output_or_error"}

\* message m carries a resolved identity
HoldsIdentity(m) == \E x \in m.marks : x[1] = "identity"

C29_ReadBeforeExecutionByScope ==
    /\ last.fn = "client_read_before_execution" =>
          last.invoked = Tag("client", client_interceptors)
    /\ last.fn = "operation_read_before_execution" =>
          last.invoked = Tag("operation", operation_interceptors)

\* C30: when modify_before_attempt_completion returns an error, the next step
\* is read_after_attempt of the same attempt, and it finds that error as the
\* output_or_error, in place of the output or the error the attempt had
\* produced.
C30_AttemptCompletionFailureGoesOn ==
    \A k \in EntriesOf("modify_before_attempt_completion") :
        ~log[k].result.ok =>
            /\ log[k].result.err = ReturnedError(log[k])
            /\ FollowedBy(k, "read_after_attempt", ErrorMsg(ReturnedError(log[k])))
            /\ OoeAfter(k) # log[k].ooe
            /\ k < Len(log) => log[k + 1].attempt = log[k].attempt

C30_Witness ==
    /\ pc = "done"
    /\ \E k \in EntriesOf("modify_before_attempt_completion") :
          /\ ~log[k].result.ok
          /\ log[k].ooe.type = "Output"
          /\ log[k + 1].fn = "read_after_attempt"
          /\ log[k + 1].ooe.type = "Error"
          /\ log[k + 1].ooe.cause.hook = "modify_before_attempt_completion"
          /\ log[k + 1].result.ok

C30_WitnessAfterFailure ==
    \E k \in EntriesOf("modify_before_attempt_completion") :
       /\ ~log[k].result.ok
       /\ log[k].ooe = ErrorMsg(TransportErr)
       /\ k < Len(log)
       /\ log[k + 1].ooe.cause.hook = "modify_before_attempt_completion"

(***************************************************************************)
(* DateTime properties                                                     *)
(***************************************************************************)
\* C31: for every i64 value m, the least, the greatest and the negative ones
\* included, DateTime::from_millis(m).to_millis() is Ok(m).
C31_MillisRoundTrip ==
    (date_time.op = "to_millis" /\ date_time.made = "from_millis") =>
        /\ date_time.d = DateTime(div_floor(date_time.arg, MILLIS_PER_SECOND),
                                  mod_floor(date_time.arg, MILLIS_PER_SECOND)
                                      * NANOS_PER_MILLI)
        /\ date_time.millis = Some(date_time.arg)

C31_Witness ==
    /\ date_time.op = "to_millis"
    /\ date_time.made = "from_millis"
    /\ date_time.arg = I64_MIN
    /\ date_time.d.seconds * MILLIS_PER_SECOND < I64_MIN
    /\ date_time.d.subsecond_nanos > 0
    /\ date_time.millis = Some(I64_MIN)

\* C32: for every DateTime d with subsecond_nanos below one second, before
\* the epoch as well as after it, as_nanos is seconds * NANOS_PER_SECOND +
\* subsecond_nanos and DateTime::from_nanos(d.as_nanos()) is Ok(d); and
\* from_nanos(n) is a ConversionError exactly when the seconds of n, floor(n /
\* NANOS_PER_SECOND), do not fit in an i64, and otherwise the DateTime of n.
C32_NanosRoundTrip ==
    /\ date_time.op = "from_nanos(as_nanos)" =>
          /\ date_time.d.subsecond_nanos \in 0..(NANOS_PER_SECOND - 1)
          /\ date_time.nanos =
                date_time.d.seconds * NANOS_PER_SECOND + date_time.d.subsecond_nanos
          /\ date_time.back = OkDateTime(date_time.d)
    /\ date_time.op = "from_nanos" =>
          /\ date_time.back.ok <=>
                /\ date_time.arg >= I64_MIN * NANOS_PER_SECOND
                /\ date_time.arg < (I64_MAX + 1) * NANOS_PER_SECOND
          /\ ~date_time.back.ok => date_time.back = ConversionError
          /\ date_time.back.ok =>
                /\ date_time.d.seconds \in I64
                /\ date_time.d.subsecond_nanos \in 0..(NANOS_PER_SECOND - 1)
                /\ date_time.d.seconds * NANOS_PER_SECOND + date_time.d.subsecond_nanos
                      = date_time.arg

C32_Witness ==
    /\ date_time.op = "from_nanos(as_nanos)"
    /\ date_time.made = "from_secs_and_nanos"
    /\ date_time.d = DateTime(I64_MIN, NANOS_PER_SECOND - 1)
    /\ date_time.nanos = (I64_MIN + 1) * NANOS_PER_SECOND - 1
    /\ date_time.back.ok

C32_WitnessTooLarge ==
    /\ date_time.op = "from_nanos"
    /\ date_time.arg = I64_MIN * NANOS_PER_SECOND - 1
    /\ date_time.back = ConversionError

\* the order of the pairs (seconds, subsecond_nanos)
Lexicographic(a, b) ==
    IF a.seconds < b.seconds THEN "Less"
    ELSE IF a.seconds > b.seconds THEN "Greater"
    ELSE IF a.subsecond_nanos < b.subsecond_nanos THEN "Less"
    ELSE IF a.subsecond_nanos > b.subsecond_nanos THEN "Greater"
    ELSE "Equal"

\* C33: the order of DateTimes is that of time: for all a and b with
\* subsecond_nanos below one second, before the epoch as well as after it,
\* a.cmp(b) is the lexicographic comparison of (seconds, subsecond_nanos), and
\* it is Equal exactly when a == b.
C33_OrderIsChronological ==
    date_time.op = "cmp" =>
        /\ date_time.ord = Lexicographic(date_time.d, date_time.other)
        /\ date_time.ord = "Equal" <=> date_time.eq
        /\ date_time.eq <=> date_time.d = date_time.other

C33_Witness ==
    /\ date_time.op = "cmp"
    /\ date_time.d = DateTime(-1, 1)
    /\ date_time.other = DateTime(-1, 0)
    /\ date_time.ord = "Greater"
    /\ ~date_time.eq

C33_WitnessEnds ==
    /\ date_time.op = "cmp"
    /\ date_time.d = DateTime(I64_MIN, NANOS_PER_SECOND - 1)
    /\ date_time.other = DateTime(I64_MAX, 0)
    /\ date_time.ord = "Less"

\* the epoch millis of d in unbounded arithmetic
TrueMillis(d) ==
    d.seconds * MILLIS_PER_SECOND + (d.subsecond_nanos \div NANOS_PER_MILLI)

\* C34: to_millis never wraps: for every DateTime, before the epoch as well as
\* after it, it returns a ConversionError exactly when seconds * 1000 +
\* floor(subsecond_nanos / 1_000_000) lies outside the i64 range, and otherwise
\* returns exactly that value.
C34_ToMillisNeverWraps ==
    date_time.op = "to_millis" =>
        date_time.millis = IF TrueMillis(date_time.d) \in I64
                           THEN Some(TrueMillis(date_time.d))
                           ELSE Nothing

C34_Witness ==
    /\ date_time.op = "to_millis"
    /\ date_time.made = "from_secs_and_nanos"
    /\ date_time.d = DateTime(I64_MAX, 0)
    /\ date_time.millis = Nothing

C34_WitnessBeforeEpoch ==
    /\ date_time.op = "to_millis"
    /\ date_time.made = "from_secs_and_nanos"
    /\ date_time.d.seconds < 0
    /\ TrueMillis(date_time.d) = I64_MIN - 1
    /\ date_time.millis = Nothing

C34_WitnessLeast ==
    /\ date_time.op = "to_millis"
    /\ date_time.made = "from_secs_and_nanos"
    /\ date_time.d.seconds * MILLIS_PER_SECOND < I64_MIN
    /\ date_time.millis = Some(I64_MIN)

\* C35: every execution comes to its end: when the retry policy stops after
\* finitely many attempts and every call returns, read_after_execution is
\* dispatched in the end and the output_or_error is handed to the caller, on
\* every path, the ones on which hooks of the attempt's completion fail
\* included.
C35_EveryExecutionCompletes ==
    <>(/\ pc = "done"
       /\ EntriesOf("read_after_execution") = {Len(log)}
       /\ Present(ctx.output_or_error))

\* every execution stops, at its end or at the early return
C35_Stops == <>Finished

\* every execution that meets no construction failure in orchestrate_auth
\* comes to its end with read_after_execution dispatched
C35_CompletesUnlessEarlyReturn ==
    <>(\/ pc = "early_return"
       \/ /\ pc = "done"
          /\ EntriesOf("read_after_execution") = {Len(log)}
          /\ Present(ctx.output_or_error))

(***************************************************************************)
(* Further properties of orchestrate_auth (checked under SpecAuth).        *)
(***************************************************************************)
\* the auth options up to and including the one at position i
UpTo(c, i) == SubSeq(c.auth_options, 1, i)

\* C36: one call of orchestrate_auth resolves at most one identity and invokes
\* at most one signer, at most once; once the first usable candidate is
\* selected, no later candidate's scheme, identity resolver or signer is
\* touched; and on success exactly one signer was invoked, exactly once.
C36_AtMostOneSigner ==
    auth.called =>
        /\ Len(auth.out.resolved) <= 1
        /\ Len(auth.out.signers) <= 1
        /\ \A i \in 1..Len(cfg.auth_options) :
              (cfg.resolver_ok /\ FirstUsableAt(cfg, i)) =>
                  /\ auth.out.looked = UpTo(cfg, i)
                  /\ auth.out.resolved = <<cfg.auth_options[i]>>
                  /\ Range(auth.out.signers) \subseteq {cfg.auth_options[i]}
        /\ auth.out.ok => (Len(auth.out.signers) = 1 /\ auth.out.resolved = auth.out.signers)

\* two usable candidates, the first one signs and the second is never looked up
C36_Witness ==
    /\ auth.called
    /\ cfg.auth_options = <<2, 1>>
    /\ Usable(cfg, 1) /\ Usable(cfg, 2)
    /\ \A x \in SchemeIds : cfg.identity_ok[x] /\ cfg.sign_ok[x]
    /\ auth.out.ok
    /\ auth.out.looked = <<2>>
    /\ auth.out.signers = <<2>>

\* C37: there is no fallback after selection: when the identity resolver or
\* the signer of the first usable candidate fails, orchestrate_auth fails with
\* that error, also when a later candidate would have succeeded.
C37_NoFallbackAfterSelection ==
    (auth.called /\ cfg.resolver_ok) =>
        \A i \in 1..Len(cfg.auth_options) :
            FirstUsableAt(cfg, i) =>
                LET w == cfg.auth_options[i]
                IN /\ ~cfg.identity_ok[w] =>
                        /\ ~auth.out.ok
                        /\ auth.out.err = construction_failure("resolve_identity")
                        /\ ctx.request.marks = {}
                   /\ (cfg.identity_ok[w] /\ ~cfg.sign_ok[w]) =>
                        /\ ~auth.out.ok
                        /\ auth.out.err = SignerErr(w)

\* the identity resolver of the first candidate fails; the second candidate
\* is usable and would have signed
C37_Witness ==
    /\ auth.called
    /\ cfg.resolver_ok
    /\ cfg.auth_options = <<1, 2>>
    /\ Usable(cfg, 1) /\ Usable(cfg, 2)
    /\ ~cfg.identity_ok[1]
    /\ cfg.identity_ok[2] /\ cfg.sign_ok[2]
    /\ auth.out.err = construction_failure("resolve_identity")
    /\ auth.out.looked = <<1>>

\* the signer of the first candidate fails; the second candidate is usable and
\* would have signed
C37_WitnessSigner ==
    /\ auth.called
    /\ cfg.resolver_ok
    /\ cfg.auth_options = <<1, 2>>
    /\ Usable(cfg, 1) /\ Usable(cfg, 2)
    /\ cfg.identity_ok[1] /\ ~cfg.sign_ok[1]
    /\ cfg.identity_ok[2] /\ cfg.sign_ok[2]
    /\ auth.out.err = SignerErr(1)
    /\ auth.out.looked = <<1>>

\* C39: on success orchestrate_auth hands back the checkpoint it was given,
\* still in the BeforeTransmit phase, with the request changed and nothing
\* else: input, response and output_or_error are as on entry.  When the auth
\* option resolver or the identity resolver fails the request is unchanged
\* too.
C39_OnlyTheRequestChanges ==
    auth.called =>
        /\ auth.out.ok =>
              /\ auth.out.checkpoint.phase = "BeforeTransmit"
              /\ auth.out.checkpoint.input = ContextIn("BeforeTransmit").input
              /\ auth.out.checkpoint.response = ContextIn("BeforeTransmit").response
              /\ auth.out.checkpoint.output_or_error
                    = ContextIn("BeforeTransmit").output_or_error
              /\ auth.out.checkpoint.request # ContextIn("BeforeTransmit").request
              /\ ctx = auth.out.checkpoint
        /\ auth.out.err.kind = "construction_failure" =>
              auth.out.checkpoint = ContextIn("BeforeTransmit")

C39_Witness ==
    /\ auth.called
    /\ auth.out.ok
    /\ auth.out.checkpoint.request.marks = {<<"signed", 1>>}
    /\ auth.out.checkpoint.phase = "BeforeTransmit"
    /\ Present(auth.out.checkpoint.input)

C39_WitnessIdentityFailure ==
    /\ auth.called
    /\ auth.out.err = construction_failure("resolve_identity")
    /\ auth.out.resolved = <<1>>
    /\ auth.out.checkpoint.request = Msg("Request")

(***************************************************************************)
(* The result of a dispatch function (checked under SpecDispatch).         *)
(***************************************************************************)
\* the positions of the hooks that were invoked and returned an error
InvokedFailing(d) == {p \in 1..Len(d.invoked) : d.beh[p] = "err"}

\* C38: a dispatch function returns Ok exactly when no hook it invoked
\* returned an error; otherwise it returns an InterceptorError that carries
\* the tag of the hook point and wraps the error of the last failing hook, so
\* that with exactly one failing hook it is that hook's error.
C38_ResultOfDispatch ==
    last.fn # "" =>
        /\ last.result.ok <=> InvokedFailing(last) = {}
        /\ InvokedFailing(last) # {} =>
              /\ last.result.err.kind = "InterceptorError"
              /\ last.result.err.hook = InnerName(last.fn)
              /\ last.result.err
                    = InterceptorError(last.hook,
                          HookErr(last.hook, Latest(InvokedFailing(last))))
        /\ \A p \in 1..Len(last.list) :
              InvokedFailing(last) = {p} => last.result.err.by = p

\* two of three hooks fail at a hook point other than read_before_execution
C38_Witness ==
    /\ last.fn = "modify_before_signing"
    /\ Len(last.list) = 3
    /\ InvokedFailing(last) = {1, 3}
    /\ last.result.err = InterceptorError("modify_before_signing",
                                           HookErr("modify_before_signing", 3))

\* exactly one hook fails, and it is not the last one invoked
C38_WitnessOne ==
    /\ last.fn = "read_after_execution"
    /\ Len(last.invoked) = 3
    /\ InvokedFailing(last) = {2}
    /\ last.result.err.by = 2

\* every hook invoked returns Ok
C38_WitnessOk ==
    /\ last.fn = "modify_before_transmit"
    /\ Len(last.invoked) = 2
    /\ last.result.ok

====
